---- MODULE Spec2Model ----
(***************************************************************************)
(* Model of the scoring and comparison core of the website crawler:        *)
(*   - ComprehensiveSEOScorer (comprehensive_seo_scorer.py)                *)
(*   - AdvancedSEOAuditOrchestrator (advanced_seo_audit_orchestrator.py)   *)
(*   - CompetitorAnalyzer (competitor_analyzer.py)                         *)
(*   - AdvancedCompetitorAnalyzer (advanced_competitor_analyzer.py)        *)
(*                                                                         *)
(* Representation.  A Python dict is a function whose domain is the set of *)
(* keys that are present; a missing key is a key outside the domain.  A    *)
(* Python str and a Python list are sequences; '' , [] and {} are all the  *)
(* empty function.  None is the string "None".  Category scores are        *)
(* integer-valued floats and are integers here; the overall score is kept  *)
(* in hundredths of a point; a page size in MB is kept in hundredths of a  *)
(* MB (the analyzer rounds it to two decimals); a load time is kept in     *)
(* milliseconds (the analyzers round it to two or three decimals).         *)
(***************************************************************************)
EXTENDS Integers, Sequences, FiniteSets, TLC

VARIABLES
    page_data,      \* the page dict handed to the scorer / the orchestrator
    outcome,        \* what each analyzer does on this document: returns a dict or raises
    feature_flags,  \* AdvancedSEOAuditOrchestrator.feature_flags
    analyzers,      \* the names whose entry of AdvancedSEOAuditOrchestrator._analyzers is an instance
    page_score,     \* the value returned by calculate_page_score / analyze_page
    pc,             \* "ready", then "scored" or "analyzed"
    site1,          \* what fetching and analysing url1 gives (your site)
    site2,          \* what fetching and analysing url2 gives (the competitor)
    result1,        \* the result of _analyze_url / _analyze_url_comprehensive on url1
    result2,        \* the same on url2
    comparison,     \* the result of _compare_results / _deep_compare_results
    advantage_score,\* the result of _calculate_advantage_score (advanced only)
    winner,         \* the result of _determine_winner / _determine_winner_advanced
    cmp,            \* "ready", then "basic" or "advanced": the comparator that ran
    text1,          \* the words of the text of url1
    text2,          \* the words of the text of url2
    keyword_comparison, \* the keyword lists and the 'keywords' part of the latest comparison
    previous_comparison, \* the same of the comparison before, on the same two texts
    kw_pc,          \* "ready", "basic" or "advanced", then "basic_again" or "advanced_again"
    pages,          \* the list of pages handed to calculate_site_score
    site_score,     \* the value returned by calculate_site_score
    site_pc,        \* "ready", then "done"
    robots_served,  \* what each domain's server answers to GET /robots.txt
    _robots_txt_cache, \* IndexabilityCrawlabilityAnalyzer._robots_txt_cache
    caller,         \* each thread's position in _check_robots_txt, and its locals
    fetches,        \* the number of session.get(robots_url) calls made per domain
    response_text,  \* the document _analyze_url_comprehensive fetched
    soup,           \* the parsed document the extractors share
    analysis,       \* the analysis dict _analyze_url_comprehensive builds
    extract_pc,     \* "fetched", then "analyzed"
    a11y_document,  \* the document handed to analyze_accessibility
    a11y_result,    \* the value analyze_accessibility returned
    a11y_pc,        \* "ready", then "done"
    all_pages,      \* the crawled pages handed to analyze_links
    current_url,    \* the url of the page analyze_links is called on
    site_analysis,  \* the value _analyze_site_links returned
    link_pc,        \* "ready", then "done"
    active_crawls,  \* app.active_crawls: the dict of each job
    crawl_pc,       \* the statement of run_crawl_async the crawl thread is at
    monitor,        \* the monitor thread's position and locals
    progress_file,  \* pages_crawled in progress.json (0 also while there is no file)
    results_response \* what the latest get_crawl_results call did

auditVars == <<page_data, outcome, feature_flags, analyzers, page_score, pc>>

compareVars == <<site1, site2, result1, result2, comparison, advantage_score, winner, cmp>>

keywordVars == <<text1, text2, keyword_comparison, previous_comparison, kw_pc>>

siteVars == <<pages, site_score, site_pc>>

robotsVars == <<robots_served, _robots_txt_cache, caller, fetches>>

extractVars == <<response_text, soup, analysis, extract_pc>>

a11yVars == <<a11y_document, a11y_result, a11y_pc>>

linkVars == <<all_pages, current_url, site_analysis, link_pc>>

crawlVars == <<active_crawls, crawl_pc, monitor, progress_file, results_response>>

restVars == <<robotsVars, extractVars, a11yVars, linkVars, crawlVars>>

vars == <<auditVars, compareVars, keywordVars, siteVars, restVars>>

\* the variables a specification does not use
IdleKeywords ==
    /\ text1 = <<>> /\ text2 = <<>>
    /\ keyword_comparison = <<>> /\ previous_comparison = <<>>
    /\ kw_pc = "idle"

IdleSite == pages = <<>> /\ site_score = <<>> /\ site_pc = "idle"

IdleAudit ==
    /\ page_data = <<>> /\ outcome = <<>> /\ feature_flags = <<>>
    /\ analyzers = {}
    /\ page_score = <<>> /\ pc = "idle"

IdleCompare ==
    /\ site1 = <<>> /\ site2 = <<>>
    /\ result1 = <<>> /\ result2 = <<>>
    /\ comparison = <<>> /\ advantage_score = <<>>
    /\ winner = <<>> /\ cmp = "idle"

IdleRobots ==
    /\ robots_served = <<>> /\ _robots_txt_cache = <<>>
    /\ caller = <<>> /\ fetches = <<>>

IdleExtract ==
    /\ response_text = <<>> /\ soup = <<>> /\ analysis = <<>> /\ extract_pc = "idle"

IdleAccessibility == a11y_document = <<>> /\ a11y_result = <<>> /\ a11y_pc = "idle"

IdleLinks ==
    /\ all_pages = <<>> /\ current_url = "" /\ site_analysis = <<>> /\ link_pc = "idle"

IdleCrawl ==
    /\ active_crawls = <<>> /\ crawl_pc = 0 /\ monitor = <<>>
    /\ progress_file = 0 /\ results_response = "idle"

IdleRest == IdleRobots /\ IdleExtract /\ IdleAccessibility /\ IdleLinks /\ IdleCrawl

(***************************************************************************)
(* Python built-ins                                                        *)
(***************************************************************************)
EmptyDict == <<>>

Get(d, k, default) == IF k \in DOMAIN d THEN d[k] ELSE default

Truthy(v) == DOMAIN v # {}

Update_KeepOld(d, e) == d @@ e

\* d.update(e): the entries of e replace those of d
Update(d, e) == e @@ d

Max(a, b) == IF a > b THEN a ELSE b

Min(a, b) == IF a < b THEN a ELSE b

Abs(a) == IF a < 0 THEN 0 - a ELSE a

MaxOf(S) == CHOOSE x \in S : \A y \in S : y <= x

Values(d) == {d[k] : k \in DOMAIN d}

Str(n) == [i \in 1..n |-> "a"]

RECURSIVE LStrip(_)
LStrip(s) == IF s # <<>> /\ Head(s) = " " THEN LStrip(Tail(s)) ELSE s

RECURSIVE RStrip(_)
RStrip(s) == IF s # <<>> /\ s[Len(s)] = " " THEN RStrip(SubSeq(s, 1, Len(s) - 1)) ELSE s

Strip(s) == RStrip(LStrip(s))

\* round(num / den) to the nearest integer, a half to the even one, as round() does
\* when the half is exactly representable
RoundHalfEven(num, den) ==
    LET q == num \div den
        r == num % den
    IN  IF 2 * r > den \/ (2 * r = den /\ q % 2 = 1) THEN q + 1 ELSE q

(***************************************************************************)
(* ComprehensiveSEOScorer                                                  *)
(***************************************************************************)
\* one "score -= amount; deductions.append(reason)" under its condition
Deduct(acc, cond, amount, reason) ==
    IF cond
    THEN [score |-> acc.score - amount, deductions |-> Append(acc.deductions, reason)]
    ELSE acc

Start == [score |-> 100, deductions |-> <<>>]

Rating_DefaultPoor(cwv, key) == Get(cwv, key, "poor")

\* cwv.get('lcp_score', ''), and the same for cls_score and inp_score
Rating(cwv, key) == Get(cwv, key, "")

PerformanceEval(pd) ==
    LET cwv == Get(pd, "core_web_vitals", EmptyDict)
        lcp_score == Rating(cwv, "lcp_score")
        cls_score == Rating(cwv, "cls_score")
        inp_score == Rating(cwv, "inp_score")
        a1 == Deduct(Start, Truthy(cwv) /\ lcp_score = "poor", 15, "LCP is poor")
        a2 == Deduct(a1, Truthy(cwv) /\ lcp_score = "needs-improvement", 8,
                     "LCP needs improvement")
        a3 == Deduct(a2, Truthy(cwv) /\ cls_score = "poor", 15, "CLS is poor")
        a4 == Deduct(a3, Truthy(cwv) /\ cls_score = "needs-improvement", 8,
                     "CLS needs improvement")
        a5 == Deduct(a4, Truthy(cwv) /\ inp_score = "poor", 10, "INP is poor")
        a6 == Deduct(a5, Truthy(cwv) /\ inp_score = "needs-improvement", 5,
                     "INP needs improvement")
        render_loading == Get(pd, "render_loading_analysis", EmptyDict)
        blocking == Get(render_loading, "render_blocking_resources", EmptyDict)
        blocking_count == Get(blocking, "total_blocking_resources", 0)
        a7 == Deduct(a6, Truthy(render_loading) /\ blocking_count > 5, 10,
                     "render-blocking resources")
        a8 == Deduct(a7, Truthy(render_loading) /\ ~(blocking_count > 5)
                           /\ blocking_count > 2, 5, "render-blocking resources")
        perf == Get(pd, "advanced_performance", EmptyDict)
        summary == Get(perf, "resource_summary", EmptyDict)
        total_mb == Get(summary, "total_page_size_mb", 0)
        a9 == Deduct(a8, Truthy(perf) /\ total_mb > 500, 10, "Page size")
        a10 == Deduct(a9, Truthy(perf) /\ ~(total_mb > 500) /\ total_mb > 300, 5,
                      "Page size")
    IN  [score |-> Max(0, a10.score), deductions |-> a10.deductions]

_score_performance(pd) == PerformanceEval(pd).score

\* images_without_alt = [img for img in images if not img.get('alt', '').strip()]
ImagesWithoutAlt(images) ==
    {i \in DOMAIN images : Strip(Get(images[i], "alt", <<>>)) = <<>>}

TitleTooShort_NotElse(title) == Len(title) < 30

\* the branch "else: if title_len < 30" of the title check
TitleTooShort(title) == title # <<>> /\ Len(title) < 30

SeoEval(pd) ==
    LET title == Get(pd, "title", <<>>)
        title_len == Len(title)
        a1 == Deduct(Start, title = <<>>, 15, "Missing title tag")
        a2 == Deduct(a1, TitleTooShort(title), 5, "Title too short")
        a3 == Deduct(a2, title # <<>> /\ ~(title_len < 30) /\ title_len > 60, 5,
                     "Title too long")
        meta_desc == Get(pd, "meta_description", <<>>)
        desc_len == Len(meta_desc)
        a4 == Deduct(a3, meta_desc = <<>>, 10, "Missing meta description")
        a5 == Deduct(a4, meta_desc # <<>> /\ desc_len < 120, 5,
                     "Meta description too short")
        a6 == Deduct(a5, meta_desc # <<>> /\ ~(desc_len < 120) /\ desc_len > 160, 5,
                     "Meta description too long")
        h1_tags == Get(pd, "h1_tags", <<>>)
        a7 == Deduct(a6, Len(h1_tags) = 0, 10, "Missing H1 tag")
        a8 == Deduct(a7, Len(h1_tags) > 1, 5, "Multiple H1 tags")
        images == Get(pd, "images", <<>>)
        without == Cardinality(ImagesWithoutAlt(images))
        \* missing_alt_pct = without / len(images) * 100, compared without dividing
        a9 == Deduct(a8, without > 0 /\ without * 100 > 50 * Len(images), 10,
                     "images missing alt text")
        a10 == Deduct(a9, without > 0 /\ ~(without * 100 > 50 * Len(images))
                            /\ without * 100 > 25 * Len(images), 5,
                      "images missing alt text")
        a11 == Deduct(a10, Get(pd, "canonical_url", <<>>) = <<>>, 5,
                      "Missing canonical URL")
        indexability == Get(pd, "indexability_analysis", EmptyDict)
        status == Get(indexability, "indexability_status", "indexable")
        a12 == Deduct(a11, Truthy(indexability) /\ status # "indexable", 20,
                      "Page not indexable")
    IN  [score |-> Max(0, a12.score), deductions |-> a12.deductions]

_score_seo(pd) == SeoEval(pd).score

ContentEval(pd) ==
    LET word_count == Get(pd, "word_count", 0)
        a1 == Deduct(Start, word_count < 300, 20, "Thin content (less than 300 words)")
        a2 == Deduct(a1, ~(word_count < 300) /\ word_count < 500, 10,
                     "Content could be longer")
        dup == Get(pd, "is_exact_duplicate", FALSE)
        similarity_scores == Get(pd, "similarity_scores", EmptyDict)
        max_similarity == IF Truthy(similarity_scores)
                          THEN MaxOf(Values(similarity_scores)) ELSE 0
        a3 == Deduct(a2, dup, 30, "Exact duplicate content")
        a4 == Deduct(a3, ~dup /\ Truthy(similarity_scores) /\ max_similarity >= 90, 25,
                     "High duplicate content")
        a5 == Deduct(a4, ~dup /\ Truthy(similarity_scores) /\ ~(max_similarity >= 90)
                           /\ max_similarity >= 70, 15, "Medium duplicate content")
        h1_count == Len(Get(pd, "h1_tags", <<>>))
        h2_count == Len(Get(pd, "h2_tags", <<>>))
        a6 == Deduct(a5, h1_count = 0, 10, "No H1 tag")
        a7 == Deduct(a6, h2_count = 0 /\ word_count > 500, 5,
                     "No H2 tags for content structure")
    IN  [score |-> Max(0, a7.score), deductions |-> a7.deductions]

_score_content(pd) == ContentEval(pd).score

MixedContentDeduction_SignSlip(count) == 0 - Min(20, count * 2)

\* score -= min(20, count * 2)
MixedContentDeduction(count) == Min(20, count * 2)

\* score -= min(15, broken_count * 3)
BrokenLinksDeduction(broken_count) == Min(15, broken_count * 3)

TechnicalEval(pd) ==
    LET security == Get(pd, "security_analysis", EmptyDict)
        https == Get(security, "https_enforcement", EmptyDict)
        a1 == Deduct(Start, Truthy(security) /\ ~Get(https, "is_https", FALSE), 20,
                     "Not served over HTTPS")
        mixed_content == Get(security, "mixed_content", EmptyDict)
        count == Get(mixed_content, "count", 0)
        a2 == Deduct(a1, Truthy(security) /\ Get(mixed_content, "has_mixed_content", FALSE),
                     MixedContentDeduction(count), "mixed content resources")
        headers == Get(security, "security_headers", EmptyDict)
        missing_count == Get(headers, "missing_count", 0)
        a3 == Deduct(a2, Truthy(security) /\ missing_count > 3, 10,
                     "missing security headers")
        broken_links == Get(pd, "broken_links", <<>>)
        broken_count == Len(broken_links)
        a4 == Deduct(a3, broken_links # <<>>, BrokenLinksDeduction(broken_count),
                     "broken links")
        status_code == Get(pd, "status_code", 200)
        a5 == Deduct(a4, status_code >= 400, 30, "HTTP status")
        a6 == Deduct(a5, ~(status_code >= 400) /\ status_code >= 300, 5, "Redirect")
    IN  [score |-> Max(0, a6.score), deductions |-> a6.deductions]

_score_technical(pd) == TechnicalEval(pd).score

Categories == <<"performance", "seo", "content", "technical">>

weights_SeoHeavy == [performance |-> 25, seo |-> 35, content |-> 25, technical |-> 20]

\* the weights of _calculate_overall_score, in hundredths
weights == [performance |-> 25, seo |-> 30, content |-> 25, technical |-> 20]

RECURSIVE WeightedFold(_, _, _)
WeightedFold(category_scores, i, acc) ==
    IF i > Len(Categories) THEN acc
    ELSE LET category == Categories[i]
             score == Get(category_scores, category, 0)
         IN  WeightedFold(category_scores, i + 1,
                 [total_weighted |-> acc.total_weighted + score * weights[category],
                  total_weight |-> acc.total_weight + weights[category]])

\* total_weighted / total_weight, in hundredths of a point
_calculate_overall_score(category_scores) ==
    LET t == WeightedFold(category_scores, 1, [total_weighted |-> 0, total_weight |-> 0])
    IN  IF t.total_weight > 0 THEN (t.total_weighted * 100) \div t.total_weight ELSE 0

\* one issue per category whose score is under 70
RECURSIVE CollectFrom(_, _)
CollectFrom(scores, i) ==
    IF i > Len(Categories) THEN <<>>
    ELSE LET category == Categories[i]
             rest == CollectFrom(scores, i + 1)
         IN  IF scores[category] < 70
             THEN <<[category |-> category,
                     severity |-> IF scores[category] < 50 THEN "warning" ELSE "info",
                     score |-> scores[category]]>> \o rest
             ELSE rest

_collect_page_issues(pd, scores) == CollectFrom(scores, 1)

_count_issues_by_severity(issues) ==
    LET sev == {issues[i].severity : i \in DOMAIN issues}
    IN  [s \in sev |-> Cardinality({i \in DOMAIN issues : issues[i].severity = s})]

\* every issue has its own category and none is critical: one line per warning
RECURSIVE _generate_recommendations(_)
_generate_recommendations(issues) ==
    IF issues = <<>> THEN <<>>
    ELSE IF Head(issues).severity = "warning"
         THEN <<[address |-> 1, category |-> Head(issues).category]>>
                  \o _generate_recommendations(Tail(issues))
         ELSE _generate_recommendations(Tail(issues))

calculate_page_score(pd) ==
    LET scores == [performance |-> _score_performance(pd),
                   seo |-> _score_seo(pd),
                   content |-> _score_content(pd),
                   technical |-> _score_technical(pd)]
        issues == _collect_page_issues(pd, scores)
    IN  [overall_score |-> _calculate_overall_score(scores),
         category_scores |-> scores,
         issues |-> issues,
         issue_counts |-> _count_issues_by_severity(issues),
         recommendations |-> _generate_recommendations(issues)]

\* sum of the category's score over the page scores
RECURSIVE CategoryTotal(_, _)
CategoryTotal(page_scores, category) ==
    IF page_scores = <<>> THEN 0
    ELSE Head(page_scores).category_scores[category]
             + CategoryTotal(Tail(page_scores), category)

Average_Truncated(total, num_pages) == (total * 10) \div num_pages

\* round(total / num_pages, 1), in tenths of a point: a total of whole points over
\* a few pages is halfway between two tenths only at a quarter, which a float holds
\* exactly
Average(total, num_pages) == RoundHalfEven(total * 10, num_pages)

\* the issues of every page, each with its page's url, in page order
RECURSIVE AllIssues(_, _)
AllIssues(pages_, scored) ==
    IF pages_ = <<>> THEN <<>>
    ELSE [i \in DOMAIN Head(scored).issues |->
             [category |-> Head(scored).issues[i].category,
              severity |-> Head(scored).issues[i].severity,
              score |-> Head(scored).issues[i].score,
              page_url |-> Get(Head(pages_), "url", <<>>)]]
             \o AllIssues(Tail(pages_), Tail(scored))

_count_issues_by_type_and_severity(issues) ==
    LET cats == {issues[i].category : i \in DOMAIN issues}
    IN  [c \in cats |->
            _count_issues_by_severity(SelectSeq(issues, LAMBDA x : x.category = c))]

severity_order == [critical |-> 0, warning |-> 1, info |-> 2, opportunity |-> 3]

\* the place of a category among the category names in string order
CategoryRank == [content |-> 1, performance |-> 2, seo |-> 3, technical |-> 4]

\* sorted() is stable: an issue goes after every issue whose key is not larger
RECURSIVE InsertIssue(_, _)
InsertIssue(sorted, e) ==
    IF sorted = <<>> THEN <<e>>
    ELSE LET h == Head(sorted)
         IN  IF \/ severity_order[h.severity] < severity_order[e.severity]
                \/ /\ severity_order[h.severity] = severity_order[e.severity]
                   /\ CategoryRank[h.category] <= CategoryRank[e.category]
             THEN <<h>> \o InsertIssue(Tail(sorted), e)
             ELSE <<e>> \o sorted

RECURSIVE SortIssues(_, _, _)
SortIssues(issues, i, acc) ==
    IF i > Len(issues) THEN acc
    ELSE SortIssues(issues, i + 1, InsertIssue(acc, issues[i]))

\* the default limit of _get_top_issues
TopIssuesLimit == 20

_get_top_issues(issues) ==
    LET sorted_issues == SortIssues(issues, 1, <<>>)
    IN  SubSeq(sorted_issues, 1, Min(TopIssuesLimit, Len(sorted_issues)))

\* the cut of site_wide_issues
SiteIssuesLimit == 100

\* round(x, 1) of a weighted sum of floats: the sum carries a rounding error, so a
\* value that is exactly halfway between two tenths may go to either of them
RoundFloat(num, den) ==
    IF 2 * (num % den) = den THEN {num \div den, num \div den + 1}
    ELSE {RoundHalfEven(num, den)}

\* the rest of calculate_site_score once every page is scored: scored[i] is
\* calculate_page_score(pages_[i]), which both loops over the pages compute
SiteScore(pages_, scored) ==
    LET page_scores == [i \in DOMAIN pages_ |->
                           [url |-> Get(pages_[i], "url", <<>>),
                            score |-> scored[i].overall_score,
                            category_scores |-> scored[i].category_scores]]
        num_pages == Len(pages_)
        category_scores ==
            [category \in {Categories[i] : i \in DOMAIN Categories} |->
                Average(CategoryTotal(scored, category), num_pages)]
        \* category scores in tenths make _calculate_overall_score give thousandths
        overall_score == _calculate_overall_score(category_scores)
        all_issues == AllIssues(pages_, scored)
    IN  {[overall_score |-> rounded,
          category_scores |-> category_scores,
          total_pages |-> num_pages,
          page_scores |-> page_scores,
          site_wide_issues |-> SubSeq(all_issues, 1, Min(SiteIssuesLimit, Len(all_issues))),
          issue_counts |-> _count_issues_by_type_and_severity(all_issues),
          top_issues |-> _get_top_issues(all_issues)] :
             rounded \in RoundFloat(overall_score, 100)}

\* calculate_site_score: the values the call may return.  A page's score is in
\* hundredths, the site's category scores and overall score are in tenths
calculate_site_score(pages_) ==
    IF pages_ = <<>>
    THEN {[overall_score |-> 0, category_scores |-> EmptyDict, total_pages |-> 0,
           page_scores |-> <<>>]}
    ELSE UNION {SiteScore(pages_, scored) :
                   scored \in {[i \in DOMAIN pages_ |-> calculate_page_score(pages_[i])]}}

(***************************************************************************)
(* AdvancedSEOAuditOrchestrator                                            *)
(***************************************************************************)
Analyzers == {"core_web_vitals", "advanced_performance", "render_loading",
              "indexability", "security"}

\* the page_data key under which analyze_page stores an analyzer's section
Section == [core_web_vitals |-> "core_web_vitals",
            advanced_performance |-> "advanced_performance",
            render_loading |-> "render_loading_analysis",
            indexability |-> "indexability_analysis",
            security |-> "security_analysis"]

\* __init__: the feature flags of an analysis_config
FeatureFlags(analysis_config) ==
    [core_web_vitals |-> Get(analysis_config, "enable_core_web_vitals", TRUE),
     advanced_performance |-> Get(analysis_config, "enable_advanced_performance", TRUE),
     render_loading |-> Get(analysis_config, "enable_render_loading_analysis", TRUE),
     indexability |-> Get(analysis_config, "enable_indexability_analysis", TRUE),
     security |-> Get(analysis_config, "enable_security_analysis", TRUE),
     comprehensive_scoring |-> Get(analysis_config, "enable_comprehensive_scoring", TRUE),
     use_playwright_for_cwv |-> Get(analysis_config, "use_playwright_for_cwv", FALSE)]

\* _init_analyzers: an analyzer whose flag is set is created when its module can be
\* imported, and is None otherwise
_init_analyzers(flags, importable) ==
    {a \in Analyzers : flags[a] /\ a \in importable}
        \cup {a \in {"scorer"} : flags.comprehensive_scoring /\ a \in importable}

\* analyze_page runs analyzer a: its flag is set and _init_analyzers created it
Runs(flags, an, a) ==
    /\ flags[a]
    /\ a = "core_web_vitals" => flags.use_playwright_for_cwv
    /\ a \in an

\* analyze_page calls the scorer
Scores(flags, an) == flags.comprehensive_scoring /\ "scorer" \in an

Returned(value) == [raised |-> FALSE, value |-> value]

Raised(message) == [raised |-> TRUE, message |-> message]

\* try: analysis_results[key] = analyzer.analyze_page(...)
\* except Exception as e: analysis_results[key] = {'error': str(e)}
RunAnalyzer(analysis_results, flags, an, out, a) ==
    IF Runs(flags, an, a)
    THEN (Section[a] :> (IF out[a].raised THEN [error |-> out[a].message]
                         ELSE out[a].value)) @@ analysis_results
    ELSE analysis_results

analyze_page(pd, flags, an, out) ==
    LET r1 == RunAnalyzer(EmptyDict, flags, an, out, "core_web_vitals")
        r2 == RunAnalyzer(r1, flags, an, out, "advanced_performance")
        r3 == RunAnalyzer(r2, flags, an, out, "render_loading")
        r4 == RunAnalyzer(r3, flags, an, out, "indexability")
        analysis_results == RunAnalyzer(r4, flags, an, out, "security")
        merged == Update(pd, analysis_results)
    IN  IF Scores(flags, an)
        THEN ("comprehensive_seo_score" :> calculate_page_score(merged)) @@ merged
        ELSE merged

(***************************************************************************)
(* CompetitorAnalyzer                                                      *)
(***************************************************************************)
\* self.timeout of CompetitorAnalyzer, in milliseconds
BasicTimeout == 30000

\* _analyze_url: the result dict for what the fetch of the url gives
_analyze_url(site, label) ==
    IF site.fetch = "ok"
    THEN [label |-> label,
          status_code |-> site.status_code,
          load_time |-> site.load_time,
          page_size |-> site.page_size,
          has_errors |-> site.status_code >= 400,
          error_count |-> IF site.status_code >= 400 THEN 1 ELSE 0,
          word_count |-> site.word_count,
          seo_score |-> site.seo_score]
    ELSE IF site.fetch = "timeout"
    THEN [label |-> label, error |-> "Timeout - Page took too long to load",
          load_time |-> BasicTimeout, has_errors |-> TRUE, error_count |-> 1]
    ELSE [label |-> label, error |-> site.fetch, has_errors |-> TRUE, error_count |-> 1]

LowerWins_Inverted(a, b) == IF a > b THEN "your_site" ELSE "competitor"

\* 'your_site' if a < b else 'competitor': the winner of a lower-is-better metric
LowerWins(a, b) == IF a < b THEN "your_site" ELSE "competitor"

\* 'your_site' if a > b else 'competitor': the winner of a higher-is-better metric
HigherWins(a, b) == IF a > b THEN "your_site" ELSE "competitor"

_compare_results(r1, r2) ==
    [load_speed |->
        [winner |-> LowerWins(Get(r1, "load_time", 999000),
                    Get(r2, "load_time", 999000)),
         difference |-> Abs(Get(r1, "load_time", 0) - Get(r2, "load_time", 0)),
         your_site |-> Get(r1, "load_time", 0),
         competitor |-> Get(r2, "load_time", 0)],
     errors |->
        [winner |-> LowerWins(Get(r1, "error_count", 0),
                    Get(r2, "error_count", 0)),
         your_site |-> Get(r1, "error_count", 0),
         competitor |-> Get(r2, "error_count", 0)],
     seo_score |->
        [winner |-> HigherWins(Get(r1, "seo_score", 0),
                    Get(r2, "seo_score", 0)),
         your_site |-> Get(r1, "seo_score", 0),
         competitor |-> Get(r2, "seo_score", 0),
         difference |-> Get(r1, "seo_score", 0) - Get(r2, "seo_score", 0)],
     on_page_seo |->
        [word_count |-> [your_site |-> Get(r1, "word_count", 0),
                         competitor |-> Get(r2, "word_count", 0)]]]

\* one step of the tally of _determine_winner
Tally(wins, w) ==
    IF w = "your_site" THEN [wins EXCEPT !.your_site = @ + 1]
    ELSE IF w = "competitor" THEN [wins EXCEPT !.competitor = @ + 1]
    ELSE [wins EXCEPT !.tie = @ + 1]

overall_winner_TieToYourSite(your_wins, competitor_wins) ==
    IF your_wins >= competitor_wins THEN "your_site" ELSE "competitor"

\* the overall verdict both comparators draw from the two win counts
overall_winner(your_wins, competitor_wins) ==
    IF your_wins > competitor_wins THEN "your_site"
    ELSE IF competitor_wins > your_wins THEN "competitor"
    ELSE "tie"

_determine_winner(c) ==
    LET w0 == [your_site |-> 0, competitor |-> 0, tie |-> 0]
        w1 == Tally(w0, c.load_speed.winner)
        w2 == Tally(w1, c.errors.winner)
        wins == Tally(w2, c.seo_score.winner)
    IN  [overall |-> overall_winner(wins.your_site, wins.competitor),
         wins |-> wins]

(***************************************************************************)
(* AdvancedCompetitorAnalyzer                                              *)
(***************************************************************************)
\* self.timeout of AdvancedCompetitorAnalyzer, in milliseconds
AdvancedTimeout == 45000

_create_error_result_NoScores(label, error) ==
    [label |-> label, error |-> error, has_errors |-> TRUE, error_count |-> 1,
     load_time |-> AdvancedTimeout]

_create_error_result(label, error) ==
    [label |-> label, error |-> error, has_errors |-> TRUE, error_count |-> 1,
     load_time |-> AdvancedTimeout, seo_score |-> 0, performance_score |-> 0,
     technical_score |-> 0, overall_score |-> 0]

\* _analyze_url_comprehensive; overall_score is kept in tenths of a point
_analyze_url_comprehensive(site, label) ==
    IF site.fetch = "ok"
    THEN [label |-> label,
          status_code |-> site.status_code,
          load_time |-> site.load_time,
          page_size |-> site.page_size,
          word_count |-> site.word_count,
          mobile_score |-> site.mobile_score,
          security_score |-> site.security_score,
          seo_score |-> site.seo_score,
          performance_score |-> site.performance_score,
          technical_score |-> site.technical_score,
          overall_score |-> site.seo_score * 4 + site.performance_score * 3
                                + site.technical_score * 3]
    ELSE IF site.fetch = "timeout"
    THEN _create_error_result(label, "Timeout - Page took too long to load")
    ELSE IF site.fetch = "ssl"
    THEN _create_error_result(label, "SSL Certificate Error")
    ELSE IF site.fetch = "connection"
    THEN _create_error_result(label, "Connection Error - Site may be down")
    ELSE _create_error_result(label, "Analysis error")

_deep_compare_results(r1, r2) ==
    [performance |->
        [load_time |->
            [your_site |-> Get(r1, "load_time", 0),
             competitor |-> Get(r2, "load_time", 0),
             winner |-> LowerWins(Get(r1, "load_time", 999000),
                    Get(r2, "load_time", 999000)),
             difference |-> Abs(Get(r1, "load_time", 0) - Get(r2, "load_time", 0))],
         page_size |->
            [your_site |-> Get(r1, "page_size", 0),
             competitor |-> Get(r2, "page_size", 0),
             winner |-> LowerWins(Get(r1, "page_size", 999999),
                    Get(r2, "page_size", 999999))],
         performance_score |->
            [your_site |-> Get(r1, "performance_score", 0),
             competitor |-> Get(r2, "performance_score", 0),
             winner |-> HigherWins(Get(r1, "performance_score", 0),
                    Get(r2, "performance_score", 0))]],
     seo |->
        [seo_score |->
            [your_site |-> Get(r1, "seo_score", 0),
             competitor |-> Get(r2, "seo_score", 0),
             difference |-> Get(r1, "seo_score", 0) - Get(r2, "seo_score", 0),
             winner |-> HigherWins(Get(r1, "seo_score", 0),
                    Get(r2, "seo_score", 0))],
         word_count |->
            [your_site |-> Get(r1, "word_count", 0),
             competitor |-> Get(r2, "word_count", 0),
             difference |-> Get(r1, "word_count", 0) - Get(r2, "word_count", 0)]],
     technical |->
        [technical_score |->
            [your_site |-> Get(r1, "technical_score", 0),
             competitor |-> Get(r2, "technical_score", 0),
             winner |-> HigherWins(Get(r1, "technical_score", 0),
                    Get(r2, "technical_score", 0))],
         mobile |-> [your_site |-> Get(r1, "mobile_score", 0),
                     competitor |-> Get(r2, "mobile_score", 0)],
         security |-> [your_site |-> Get(r1, "security_score", 0),
                       competitor |-> Get(r2, "security_score", 0)]]]

\* one step of the tally of _calculate_advantage_score on a winner field
TallyWinner(t, w) ==
    IF w = "your_site" THEN [t EXCEPT !.your_wins = @ + 1]
    ELSE IF w = "competitor" THEN [t EXCEPT !.competitor_wins = @ + 1]
    ELSE t

\* one step of the tally on a pair of values (mobile, security)
TallyValues(t, m) ==
    IF m.your_site > m.competitor THEN [t EXCEPT !.your_wins = @ + 1]
    ELSE IF m.competitor > m.your_site THEN [t EXCEPT !.competitor_wins = @ + 1]
    ELSE t

_calculate_advantage_score(c) ==
    LET t0 == [your_wins |-> 0, competitor_wins |-> 0, ties |-> 0]
        t1 == TallyWinner(t0, c.performance.load_time.winner)
        t2 == TallyWinner(t1, c.performance.performance_score.winner)
        t3 == TallyWinner(t2, c.seo.seo_score.winner)
        t4 == TallyWinner(t3, c.technical.technical_score.winner)
        t5 == TallyValues(t4, c.technical.mobile)
        t6 == TallyValues(t5, c.technical.security)
    IN  [your_wins |-> t6.your_wins,
         competitor_wins |-> t6.competitor_wins,
         ties |-> t6.ties,
         total_categories |-> t6.your_wins + t6.competitor_wins + t6.ties]

_determine_winner_advanced(advantage) ==
    [overall |-> overall_winner(advantage.your_wins, advantage.competitor_wins),
     wins |-> [your_site |-> advantage.your_wins,
               competitor |-> advantage.competitor_wins,
               ties |-> advantage.ties]]

(***************************************************************************)
(* Keywords.  A text is the list of its lower-case words of four letters   *)
(* or more, which is what re.findall(r'\b[a-z]{4,}\b', text.lower()) makes *)
(* of it.  An importance is kept in millionths; round(x, 4) gives          *)
(* ten-thousandths.                                                        *)
(***************************************************************************)
\* the stop words of CompetitorAnalyzer._extract_keywords
stop_words_basic ==
    {"this", "that", "with", "from", "have", "been", "will", "your", "their",
     "there", "what", "which", "about", "would", "could", "should", "these",
     "those", "them", "they", "were", "where", "when", "than", "then", "more",
     "most", "some", "such", "only", "just", "also", "very", "much", "many"}

\* the stop words of AdvancedCompetitorAnalyzer._extract_keywords_advanced
stop_words ==
    stop_words_basic \cup
    {"into", "over", "after", "under", "through", "during", "before", "above",
     "below", "between", "among", "within", "without", "against", "toward",
     "towards", "around", "throughout", "beside", "besides", "except", "beyond"}

\* the keys of Counter(words): the distinct words in the order of first occurrence
RECURSIVE FirstOccurrences(_, _)
FirstOccurrences(words, seen) ==
    IF words = <<>> THEN <<>>
    ELSE IF Head(words) \in seen THEN FirstOccurrences(Tail(words), seen)
    ELSE <<Head(words)>> \o FirstOccurrences(Tail(words), seen \cup {Head(words)})

\* Counter(words)[w]
Count(words, w) == Cardinality({i \in DOMAIN words : words[i] = w})

\* tf * idf * count with tf = count / total_words and idf = 1 / (1 + count / total_words),
\* in millionths
Importance(count, total_words) == (count * count * 1000000) \div (total_words + count)

\* round(x, 4) of an importance: millionths to ten-thousandths, half to even
Round4(x) == RoundHalfEven(x, 100)

\* the place of e in a list sorted by key, largest first: list.sort is stable, so
\* after every entry whose key is not smaller
RECURSIVE InsertDesc(_, _, _)
InsertDesc(sorted, e, key) ==
    IF sorted = <<>> THEN <<e>>
    ELSE IF Head(sorted)[key] >= e[key]
         THEN <<Head(sorted)>> \o InsertDesc(Tail(sorted), e, key)
         ELSE <<e>> \o sorted

RECURSIVE SortFrom(_, _, _, _)
SortFrom(list, i, acc, key) ==
    IF i > Len(list) THEN acc
    ELSE SortFrom(list, i + 1, InsertDesc(acc, list[i], key), key)

RECURSIVE InsertAsc(_, _, _)
InsertAsc(sorted, e, key) ==
    IF sorted = <<>> THEN <<e>>
    ELSE IF Head(sorted)[key] <= e[key]
         THEN <<Head(sorted)>> \o InsertAsc(Tail(sorted), e, key)
         ELSE <<e>> \o sorted

RECURSIVE SortFromAsc(_, _, _, _)
SortFromAsc(list, i, acc, key) ==
    IF i > Len(list) THEN acc
    ELSE SortFromAsc(list, i + 1, InsertAsc(acc, list[i], key), key)

SortDesc_Ascending(list, key) == SortFromAsc(list, 1, <<>>, key)

\* list.sort(key=lambda x: x[key], reverse=True)
SortDesc(list, key) == SortFrom(list, 1, <<>>, key)

\* list[:n]
Take(list, n) == SubSeq(list, 1, Min(n, Len(list)))

\* CompetitorAnalyzer._extract_keywords: (word, count) pairs, most frequent first
_extract_keywords(words) ==
    IF words = <<>> THEN <<>>
    ELSE LET distinct == FirstOccurrences(words, {})
             kept == SelectSeq(distinct,
                         LAMBDA w : w \notin stop_words_basic /\ Count(words, w) > 1)
         IN  SortDesc([i \in DOMAIN kept |-> <<kept[i], Count(words, kept[i])>>], 2)

\* AdvancedCompetitorAnalyzer._extract_keywords_advanced: (word, count, importance)
\* triples, most important first
_extract_keywords_advanced(words) ==
    IF words = <<>> THEN <<>>
    ELSE LET total_words == Len(words)
             distinct == FirstOccurrences(words, {})
             kept == SelectSeq(distinct,
                         LAMBDA w : w \notin stop_words /\ Count(words, w) > 1)
         IN  SortDesc([i \in DOMAIN kept |->
                          <<kept[i], Count(words, kept[i]),
                            Importance(Count(words, kept[i]), total_words)>>], 3)

\* the keys of {word: ... for word, ... in keywords}, in insertion order
Words(keywords) == FirstOccurrences([i \in DOMAIN keywords |-> keywords[i][1]], {})

WordSet(keywords) == {keywords[i][1] : i \in DOMAIN keywords}

\* {word: ... for word, ... in keywords}[w]: the last entry of the word
Entry(keywords, w) ==
    keywords[CHOOSE i \in DOMAIN keywords :
                 /\ keywords[i][1] = w
                 /\ \A j \in DOMAIN keywords : j > i => keywords[j][1] # w]

\* the top 20 of CompetitorAnalyzer
TopKeywords == 20

\* the top 30 of AdvancedCompetitorAnalyzer
TopKeywordsAdvanced == 30

\* _find_common_keywords; order is the order in which the set
\* set(words1.keys()) & set(words2.keys()) is iterated
_find_common_keywords(keywords1, keywords2, order) ==
    LET common == [i \in DOMAIN order |->
                      [keyword |-> order[i],
                       your_count |-> Entry(keywords1, order[i])[2],
                       competitor_count |-> Entry(keywords2, order[i])[2],
                       total |-> Entry(keywords1, order[i])[2]
                                     + Entry(keywords2, order[i])[2]]]
    IN  Take(SortDesc(common, "total"), TopKeywords)

_find_unique_keywords(keywords1, keywords2) ==
    LET mine == SelectSeq(Words(keywords1), LAMBDA w : w \notin WordSet(keywords2))
        unique == [i \in DOMAIN mine |->
                      [keyword |-> mine[i], count |-> Entry(keywords1, mine[i])[2]]]
    IN  Take(SortDesc(unique, "count"), TopKeywords)

_find_common_keywords_advanced(keywords1, keywords2, order) ==
    LET common == [i \in DOMAIN order |->
                      LET e1 == Entry(keywords1, order[i])
                          e2 == Entry(keywords2, order[i])
                      IN  [keyword |-> order[i],
                           your_count |-> e1[2],
                           competitor_count |-> e2[2],
                           your_importance |-> Round4(e1[3]),
                           competitor_importance |-> Round4(e2[3]),
                           total_count |-> e1[2] + e2[2],
                           total_importance |-> Round4(e1[3] + e2[3])]]
    IN  Take(SortDesc(common, "total_importance"), TopKeywordsAdvanced)

_find_unique_keywords_advanced_NoFilter(keywords1, keywords2) ==
    LET mine == Words(keywords1)
        unique == [i \in DOMAIN mine |->
                      [keyword |-> mine[i],
                       count |-> Entry(keywords1, mine[i])[2],
                       importance |-> Round4(Entry(keywords1, mine[i])[3])]]
    IN  Take(SortDesc(unique, "importance"), TopKeywordsAdvanced)

_find_unique_keywords_advanced(keywords1, keywords2) ==
    LET mine == SelectSeq(Words(keywords1), LAMBDA w : w \notin WordSet(keywords2))
        unique == [i \in DOMAIN mine |->
                      [keyword |-> mine[i],
                       count |-> Entry(keywords1, mine[i])[2],
                       importance |-> Round4(Entry(keywords1, mine[i])[3])]]
    IN  Take(SortDesc(unique, "importance"), TopKeywordsAdvanced)

(***************************************************************************)
(* AdvancedCompetitorAnalyzer: the extractors of                           *)
(* _analyze_url_comprehensive.  A parsed document is the list of its       *)
(* elements in document order; an element has its tag, the attribute the   *)
(* extractors select it by (name, rel, or src for a script) and its        *)
(* content.                                                                *)
(***************************************************************************)
Element(tag, attr, content) == [tag |-> tag, attr |-> attr, content |-> content]

\* soup.find_all(tag)
FindAll(soup_, tag) == {i \in DOMAIN soup_ : soup_[i].tag = tag}

\* soup.find_all(tag, attr=value)
FindAllWith(soup_, tag, attr) == {i \in DOMAIN soup_ : soup_[i].tag = tag /\ soup_[i].attr = attr}

\* soup.find(tag, attr=value): the content of the first such element, '' without one
FindContent(soup_, tag, attr) ==
    LET found == FindAllWith(soup_, tag, attr)
    IN  IF found = {} THEN ""
        ELSE soup_[CHOOSE i \in found : \A j \in found : i <= j].content

_extract_seo_data(soup_) ==
    [meta_description |-> FindContent(soup_, "meta", "description"),
     canonical_url |-> FindContent(soup_, "link", "canonical")]

\* the tags _analyze_content removes from the document it is given
Decomposed == {"script", "style", "noscript", "meta", "link"}

\* the document after 'for script in soup([...]): script.decompose()'
Decompose(soup_) ==
    LET IsKept(element) == element.tag \notin Decomposed
    IN  SelectSeq(soup_, IsKept)

\* _analyze_content works on the document it has decomposed
_analyze_content(soup_) ==
    [paragraph_count |-> Cardinality(FindAll(Decompose(soup_), "p")),
     content_density |-> [paragraph_count |-> Cardinality(FindAll(Decompose(soup_), "p")),
                          image_count |-> Cardinality(FindAll(Decompose(soup_), "img"))]]

_analyze_technical_seo(soup_) ==
    [robots_meta |-> FindContent(soup_, "meta", "robots"),
     has_viewport |-> FindAllWith(soup_, "meta", "viewport") # {},
     images_count |-> Cardinality(FindAll(soup_, "img")),
     has_sitemap_link |-> FindAllWith(soup_, "link", "sitemap") # {}]

_analyze_performance_indicators(soup_) ==
    LET scripts == FindAll(soup_, "script")
        external_scripts == Cardinality(FindAllWith(soup_, "script", "src"))
        stylesheet_count == Cardinality(FindAllWith(soup_, "link", "stylesheet"))
    IN  [scripts_count |-> Cardinality(scripts),
         inline_scripts |-> Cardinality(scripts) - external_scripts,
         external_scripts |-> external_scripts,
         stylesheets_count |-> stylesheet_count,
         render_blocking_resources |-> stylesheet_count + external_scripts]

_calculate_mobile_score(has_viewport, is_optimized, responsive_images) ==
    (IF has_viewport THEN 30 ELSE 0) + (IF is_optimized THEN 30 ELSE 0)
        + (IF responsive_images > 0 THEN Min(40, responsive_images * 5) ELSE 0)

_analyze_mobile_friendliness(soup_) ==
    LET has_viewport == FindAllWith(soup_, "meta", "viewport") # {}
        has_mobile_optimized == FindContent(soup_, "meta", "viewport") = "width=device-width"
        images_with_srcset == Cardinality(FindAllWith(soup_, "img", "srcset"))
    IN  [has_viewport |-> has_viewport,
         has_mobile_optimized |-> has_mobile_optimized,
         has_touch_icon |-> FindAllWith(soup_, "link", "apple-touch-icon") # {},
         images_with_srcset |-> images_with_srcset,
         mobile_score |-> _calculate_mobile_score(has_viewport, has_mobile_optimized,
                                                  images_with_srcset)]

\* the extractor calls of _analyze_url_comprehensive in their order, each
\* merged into analysis with update; every extractor after _analyze_content
\* is handed the document that _analyze_content has decomposed
ExtractAll(soup_) ==
    LET after_content == Decompose(soup_)
    IN  Update(Update(Update(Update(_extract_seo_data(soup_),
                                    _analyze_content(soup_)),
                             _analyze_technical_seo(after_content)),
                      _analyze_performance_indicators(after_content)),
               _analyze_mobile_friendliness(after_content))

(***************************************************************************)
(* AccessibilityAnalyzer.  The document is the lists of its images (each   *)
(* its alt text), of its links with an href (each its text and whether it  *)
(* has an aria-label) and of its inputs (each whether a label names it and *)
(* whether it has an aria-label), and the numbers of its elements with an  *)
(* aria- attribute and of its semantic elements.  Every score is kept in   *)
(* tenths of a point.                                                      *)
(***************************************************************************)
\* round(part / total * 100, 1) if total > 0 else 0
Percentage(part, total) == IF total > 0 THEN RoundHalfEven(part * 1000, total) ELSE 0

_analyze_images(images) ==
    LET total == Len(images)
        with_alt == Cardinality({i \in DOMAIN images : Strip(images[i]) # <<>>})
    IN  [total |-> total, with_alt |-> with_alt, empty_alt |-> total - with_alt,
         alt_coverage |-> Percentage(with_alt, total),
         score |-> Percentage(with_alt, total)]

generic_anchors == {"click here", "read more", "here", "link", "more"}

\* text.lower().strip() of the link texts that occur
LowerText(text) == IF text = "Read More" THEN "read more" ELSE text

\* the 'score' of _analyze_links
LinkScore(with_text, generic_text, total) == Percentage(with_text - generic_text, total)

_analyze_links(links) ==
    LET total == Len(links)
        without_text == Cardinality({i \in DOMAIN links : links[i].text = ""})
        generic_text == Cardinality({i \in DOMAIN links :
                            links[i].text # "" /\ LowerText(links[i].text) \in generic_anchors})
        with_text == total - without_text - generic_text
    IN  [total |-> total, with_text |-> with_text, without_text |-> without_text,
         generic_text |-> generic_text,
         with_aria_labels |-> Cardinality({i \in DOMAIN links : links[i].aria_label}),
         score |-> LinkScore(with_text, generic_text, total)]

_analyze_forms(inputs) ==
    LET total_inputs == Len(inputs)
        inputs_with_labels == Cardinality({i \in DOMAIN inputs :
                                  inputs[i].label \/ inputs[i].aria_label})
    IN  [total_inputs |-> total_inputs, inputs_with_labels |-> inputs_with_labels,
         inputs_without_labels |-> total_inputs - inputs_with_labels,
         inputs_with_aria |-> Cardinality({i \in DOMAIN inputs : inputs[i].aria_label}),
         label_coverage |-> Percentage(inputs_with_labels, total_inputs),
         score |-> Percentage(inputs_with_labels, total_inputs)]

_analyze_aria(aria_elements) ==
    [total_aria_elements |-> aria_elements, score |-> 10 * Min(100, aria_elements * 2)]

_analyze_semantic_html(total_semantic) ==
    [total_semantic_elements |-> total_semantic, score |-> 10 * Min(100, total_semantic * 10)]

\* _calculate_wcag_score: the values round(total_score, 1) may take; the
\* weights are in hundredths, so the weighted sum is in thousandths
_calculate_wcag_score(image, link, form, aria, semantic) ==
    RoundFloat(image.score * 25 + link.score * 20 + form.score * 20 + aria.score * 15
                   + semantic.score * 20, 100)

\* analyze_accessibility: the values the call may return
analyze_accessibility(document) ==
    {[wcag_score |-> wcag_score, image_analysis |-> analyses.image,
      link_analysis |-> analyses.link, form_analysis |-> analyses.form,
      aria_analysis |-> analyses.aria, semantic_analysis |-> analyses.semantic] :
         <<analyses, wcag_score>> \in
             UNION {{<<a, w>> : w \in _calculate_wcag_score(a.image, a.link, a.form, a.aria,
                                                            a.semantic)} :
                       a \in {[image |-> _analyze_images(document.images),
                               link |-> _analyze_links(document.links),
                               form |-> _analyze_forms(document.inputs),
                               aria |-> _analyze_aria(document.aria_elements),
                               semantic |-> _analyze_semantic_html(document.semantic_elements)]}}}

(***************************************************************************)
(* IndexabilityCrawlabilityAnalyzer: robots.txt.  The text of a robots.txt *)
(* is the list of its lines; a line is kept as the field before its first  *)
(* ':' and the stripped value after it (a line without ':' has only a      *)
(* field).  A path and a pattern are lists of characters, and the name of  *)
(* a user agent is a list of one symbol.  The local                        *)
(* robots_content is only tested with 'not', which None and '' both        *)
(* satisfy: both are the empty list.                                       *)
(***************************************************************************)
\* str.lower() on the field names and user agents that occur
Lower(s) ==
    CASE s = "User-agent" -> "user-agent"
      [] s = "Disallow" -> "disallow"
      [] s = "Allow" -> "allow"
      [] s = "Googlebot" -> "googlebot"
      [] OTHER -> s

LowerAll(value) == [i \in DOMAIN value |-> Lower(value[i])]

\* re.match(regex, path): the regex matches a prefix of the path.  The regex
\* is a list of literal characters, "*" for '.*' and "$" for the end of the path
RECURSIVE ReMatch(_, _)
ReMatch(regex, path) ==
    IF regex = <<>> THEN TRUE
    ELSE CASE Head(regex) = "*" ->
                  \E k \in 0..Len(path) : ReMatch(Tail(regex), SubSeq(path, k + 1, Len(path)))
           [] Head(regex) = "$" -> path = <<>> /\ ReMatch(Tail(regex), path)
           [] OTHER -> path # <<>> /\ Head(path) = Head(regex) /\ ReMatch(Tail(regex), Tail(path))

_robots_pattern_matches(path, pattern) ==
    IF pattern = <<>> THEN FALSE
    ELSE LET regex == IF pattern[Len(pattern)] = "$" THEN pattern ELSE pattern \o <<"*">>
         IN  ReMatch(regex, path)

InUserAgentBlock_Any(current_user_agent) == TRUE

\* in_user_agent_block after a User-agent line
InUserAgentBlock(current_user_agent) ==
    current_user_agent = <<"*">> \/ current_user_agent = <<"googlebot">>

\* one turn of the loop over the lines; st holds blocks_user_agent,
\* allows_user_agent and in_user_agent_block
RobotsLine(st, line, path) ==
    IF line.field = "" \/ line.field = "#" THEN st
    ELSE IF Lower(line.field) = "user-agent"
    THEN [st EXCEPT !.in_user_agent_block = InUserAgentBlock(LowerAll(line.value))]
    ELSE IF Lower(line.field) = "disallow" /\ st.in_user_agent_block
    THEN IF line.value # <<>> /\ _robots_pattern_matches(path, line.value)
         THEN [st EXCEPT !.blocks_user_agent = TRUE, !.allows_user_agent = FALSE]
         ELSE st
    ELSE IF Lower(line.field) = "allow" /\ st.in_user_agent_block
    THEN IF line.value # <<>> /\ _robots_pattern_matches(path, line.value)
         THEN [st EXCEPT !.allows_user_agent = TRUE, !.blocks_user_agent = FALSE]
         ELSE st
    ELSE st

RECURSIVE RobotsLines(_, _, _)
RobotsLines(st, lines, path) ==
    IF lines = <<>> THEN st
    ELSE RobotsLines(RobotsLine(st, Head(lines), path), Tail(lines), path)

\* _check_robots_txt from 'if not robots_content' on
RobotsVerdict(robots_content, path) ==
    IF robots_content = <<>>
    THEN [available |-> FALSE, blocks_page |-> FALSE, allows_page |-> TRUE,
          message |-> "robots.txt not accessible or does not exist"]
    ELSE LET st == RobotsLines([blocks_user_agent |-> FALSE, allows_user_agent |-> TRUE,
                                in_user_agent_block |-> FALSE], robots_content, path)
         IN  [available |-> TRUE, blocks_page |-> st.blocks_user_agent,
              allows_page |-> st.allows_user_agent, path_checked |-> path,
              message |-> IF st.blocks_user_agent THEN "Blocked by robots.txt"
                          ELSE "Allowed by robots.txt"]

(***************************************************************************)
(* Inputs.  A page is put together from one fragment per signal; the empty *)
(* fragment leaves the key out of page_data.  One group of signals ranges  *)
(* over all its combinations while the other groups follow a base page.    *)
(***************************************************************************)
MaxMixed == 11

MaxBroken == 6

Opt(k, vals) == {EmptyDict} \cup {k :> v : v \in vals}

VitalRatings == {"good", "needs-improvement", "poor"}

\* the metrics dict of CoreWebVitalsAnalyzer.analyze_page: a rating is None when
\* the value was not measured
CwvResults ==
    {[lcp_score |-> l, cls_score |-> c, inp_score |-> i] :
        l \in VitalRatings \cup {"None"}, c \in VitalRatings, i \in VitalRatings \cup {"None"}}

CwvOpts == {EmptyDict, "core_web_vitals" :> [error |-> "failed"]}
               \cup {"core_web_vitals" :> r : r \in CwvResults}

RenderResult(n) == [render_blocking_resources |-> [total_blocking_resources |-> n]]

PerfResult(mb) == [resource_summary |-> [total_page_size_mb |-> mb]]

PerfFragments ==
    {c @@ r @@ p :
        c \in CwvOpts,
        r \in Opt("render_loading_analysis", {RenderResult(n) : n \in {2, 3, 5, 6}}),
        p \in Opt("advanced_performance", {PerfResult(mb) : mb \in {300, 301, 500, 501}})}

PerfKeys == {"core_web_vitals", "render_loading_analysis", "advanced_performance"}

Image(alt) == [src |-> "i.png", alt |-> alt]

ImageLists ==
    {<<>>, <<Image(<<"a">>)>>, <<Image(<<" ">>)>>, <<[src |-> "i.png"]>>,
     <<Image(<<"a">>), Image(<<>>)>>,
     <<Image(<<"a">>), Image(<<"a">>), Image(<<" ", " ">>)>>,
     <<Image(<<"a">>), Image(<<"a">>), Image(<<"a">>), Image(<<>>)>>}

IndexResult(status) == [indexability_status |-> status]

HeadFragments ==
    {t @@ m @@ c :
        t \in Opt("title", {Str(0), Str(29), Str(30), Str(45), Str(60), Str(61)}),
        m \in Opt("meta_description", {Str(0), Str(119), Str(140), Str(161)}),
        c \in Opt("canonical_url", {Str(0), Str(1)})}

HeadKeys == {"title", "meta_description", "canonical_url"}

BodyFragments ==
    {h @@ i @@ x :
        h \in Opt("h1_tags", {<<>>, <<"h">>, <<"h", "h">>}),
        i \in Opt("images", ImageLists),
        x \in Opt("indexability_analysis",
                  {[error |-> "failed"], IndexResult("indexable"), IndexResult("noindex")})}

BodyKeys == {"h1_tags", "images", "indexability_analysis"}

ContentFragments ==
    {w @@ d @@ s @@ h1 @@ h2 :
        w \in Opt("word_count", {0, 299, 300, 499, 500, 501}),
        d \in Opt("is_exact_duplicate", BOOLEAN),
        s \in Opt("similarity_scores",
                  {EmptyDict, [p1 |-> 69], [p1 |-> 70, p2 |-> 10], [p1 |-> 89, p2 |-> 90]}),
        h1 \in Opt("h1_tags", {<<>>, <<"h">>}),
        h2 \in Opt("h2_tags", {<<>>, <<"h">>})}

ContentKeys == {"word_count", "is_exact_duplicate", "similarity_scores", "h1_tags", "h2_tags"}

\* the result of SecurityTrustAnalyzer.analyze_page: count = len(http_resources)
SecurityResult(is_https, count, missing) ==
    [https_enforcement |-> [is_https |-> is_https],
     mixed_content |-> [has_mixed_content |-> count > 0, count |-> count],
     security_headers |-> [missing_count |-> missing]]

SecurityResults ==
    {SecurityResult(s, n, m) : s \in BOOLEAN, n \in 0..MaxMixed, m \in {3, 4}}

Links(n) == [i \in 1..n |-> "broken"]

TechFragments ==
    {s @@ b @@ c :
        s \in Opt("security_analysis", {[error |-> "failed"]} \cup SecurityResults),
        b \in Opt("broken_links", {Links(n) : n \in 0..MaxBroken}),
        c \in Opt("status_code", {200, 301, 404})}

TechKeys == {"security_analysis", "broken_links", "status_code"}

BestPage ==
    [title |-> Str(45), meta_description |-> Str(140), h1_tags |-> <<"h">>,
     h2_tags |-> <<"h">>, images |-> <<Image(<<"a">>)>>, canonical_url |-> Str(1),
     word_count |-> 800, status_code |-> 200, broken_links |-> <<>>]

WorstPage ==
    [title |-> Str(0), meta_description |-> Str(0), h1_tags |-> <<>>, h2_tags |-> <<>>,
     images |-> <<Image(<<>>)>>, canonical_url |-> Str(0), word_count |-> 0,
     is_exact_duplicate |-> TRUE, status_code |-> 404, broken_links |-> Links(MaxBroken),
     indexability_analysis |-> IndexResult("noindex"),
     security_analysis |-> SecurityResult(FALSE, MaxMixed, 4),
     core_web_vitals |-> [lcp_score |-> "poor", cls_score |-> "poor", inp_score |-> "poor"],
     render_loading_analysis |-> RenderResult(6),
     advanced_performance |-> PerfResult(501)]

BasePages == {EmptyDict, BestPage, WorstPage}

Without(d, keys) == [x \in (DOMAIN d) \ keys |-> d[x]]

Pages ==
    UNION {{f @@ Without(base, PerfKeys) : f \in PerfFragments}
           \cup {f @@ Without(base, HeadKeys) : f \in HeadFragments}
           \cup {f @@ Without(base, BodyKeys) : f \in BodyFragments}
           \cup {f @@ Without(base, ContentKeys) : f \in ContentFragments}
           \cup {f @@ Without(base, TechKeys) : f \in TechFragments}
           : base \in BasePages}

\* what the five analyzers do on one document
Outcomes ==
    {[core_web_vitals |-> c, advanced_performance |-> p, render_loading |-> r,
      indexability |-> i, security |-> s] :
        c \in {Raised("TimeoutError"),
               Returned([lcp_score |-> "poor", cls_score |-> "good", inp_score |-> "None"])},
        p \in {Raised("failed"), Returned(PerfResult(200)), Returned(PerfResult(501))},
        r \in {Raised("failed"), Returned(RenderResult(0)), Returned(RenderResult(3))},
        i \in {Raised("failed"), Returned(IndexResult("indexable")),
               Returned(IndexResult("noindex"))},
        s \in {Raised("failed"), Returned(SecurityResult(TRUE, 0, 0)),
               Returned(SecurityResult(FALSE, 0, 4))}}

NoFailure ==
    [core_web_vitals |-> Returned([lcp_score |-> "good", cls_score |-> "good",
                                   inp_score |-> "good"]),
     advanced_performance |-> Returned(PerfResult(200)),
     render_loading |-> Returned(RenderResult(0)),
     indexability |-> Returned(IndexResult("indexable")),
     security |-> Returned(SecurityResult(TRUE, 0, 0))]

Importable == Analyzers \cup {"scorer"}

\* an analysis_config with the modules that can be imported
Configs ==
    {<<EmptyDict, Importable>>,
     <<[use_playwright_for_cwv |-> TRUE], Importable>>,
     <<[use_playwright_for_cwv |-> TRUE], Importable \ {"render_loading"}>>,
     <<[use_playwright_for_cwv |-> TRUE, enable_security_analysis |-> FALSE], Importable>>,
     <<[use_playwright_for_cwv |-> TRUE, enable_comprehensive_scoring |-> FALSE],
       Importable>>}

AuditInputs ==
    {<<p, NoFailure, <<EmptyDict, Importable>>>> : p \in Pages}
        \cup (BasePages \X Outcomes \X Configs)

(***************************************************************************)
(* The audit: one call of the scorer or of the orchestrator on a page      *)
(***************************************************************************)
InitAudit ==
    \E in \in AuditInputs :
        /\ page_data = in[1]
        /\ outcome = in[2]
        /\ feature_flags = FeatureFlags(in[3][1])
        /\ analyzers = _init_analyzers(FeatureFlags(in[3][1]), in[3][2])
        /\ page_score = EmptyDict
        /\ pc = "ready"
        /\ site1 = EmptyDict /\ site2 = EmptyDict
        /\ result1 = EmptyDict /\ result2 = EmptyDict
        /\ comparison = EmptyDict /\ advantage_score = EmptyDict
        /\ winner = EmptyDict /\ cmp = "idle"
        /\ IdleKeywords /\ IdleSite /\ IdleRest

\* scorer.calculate_page_score(page_data)
CalculatePageScore ==
    /\ pc = "ready"
    /\ page_score' = calculate_page_score(page_data)
    /\ pc' = "scored"
    /\ UNCHANGED <<page_data, outcome, feature_flags, analyzers>>
    /\ UNCHANGED <<compareVars, keywordVars, siteVars, restVars>>

\* orchestrator.analyze_page(page_data, html_content, page_url, response_headers)
AnalyzePage ==
    /\ pc = "ready"
    /\ page_data' = analyze_page(page_data, feature_flags, analyzers, outcome)
    /\ page_score' = page_data'
    /\ pc' = "analyzed"
    /\ UNCHANGED <<outcome, feature_flags, analyzers>>
    /\ UNCHANGED <<compareVars, keywordVars, siteVars, restVars>>

NextAudit == CalculatePageScore \/ AnalyzePage

SpecAudit == InitAudit /\ [][NextAudit]_vars

(***************************************************************************)
(* The comparison: one call of analyze_competitors on two urls             *)
(***************************************************************************)
BaseSite ==
    [fetch |-> "ok", status_code |-> 200, load_time |-> 1200, page_size |-> 1000,
     word_count |-> 400, seo_score |-> 72, performance_score |-> 72,
     technical_score |-> 72, mobile_score |-> 60, security_score |-> 30]

Sites ==
    {[BaseSite EXCEPT !.load_time = l, !.page_size = p, !.performance_score = f,
                      !.status_code = c] :
        l \in {1200, 3400}, p \in {1000, 2000}, f \in {72, 85}, c \in {200, 404}}
    \cup
    {[BaseSite EXCEPT !.seo_score = s, !.technical_score = t, !.mobile_score = m,
                      !.security_score = x] :
        s \in {72, 80}, t \in {72, 55}, m \in {60, 100}, x \in {30, 0}}
    \cup
    {[BaseSite EXCEPT !.page_size = 2000000]}
    \cup
    {[fetch |-> f] : f \in {"timeout", "ssl", "connection", "other"}}

InitCompare ==
    /\ site1 \in Sites /\ site2 \in Sites
    /\ result1 = EmptyDict /\ result2 = EmptyDict
    /\ comparison = EmptyDict /\ advantage_score = EmptyDict
    /\ winner = EmptyDict /\ cmp = "ready"
    /\ page_data = EmptyDict /\ outcome = EmptyDict /\ feature_flags = EmptyDict
    /\ analyzers = {}
    /\ page_score = EmptyDict /\ pc = "idle"
    /\ IdleKeywords /\ IdleSite /\ IdleRest

\* CompetitorAnalyzer.analyze_competitors(url1, url2)
AnalyzeCompetitors ==
    /\ cmp = "ready"
    /\ result1' = _analyze_url(site1, "Your Site")
    /\ result2' = _analyze_url(site2, "Competitor")
    /\ comparison' = _compare_results(result1', result2')
    /\ winner' = _determine_winner(comparison')
    /\ cmp' = "basic"
    /\ UNCHANGED <<site1, site2, advantage_score>>
    /\ UNCHANGED <<auditVars, keywordVars, siteVars, restVars>>

\* AdvancedCompetitorAnalyzer.analyze_competitors(url1, url2)
AnalyzeCompetitorsAdvanced ==
    /\ cmp = "ready"
    /\ result1' = _analyze_url_comprehensive(site1, "Your Site")
    /\ result2' = _analyze_url_comprehensive(site2, "Competitor")
    /\ comparison' = _deep_compare_results(result1', result2')
    /\ advantage_score' = _calculate_advantage_score(comparison')
    /\ winner' = _determine_winner_advanced(advantage_score')
    /\ cmp' = "advanced"
    /\ UNCHANGED <<site1, site2>>
    /\ UNCHANGED <<auditVars, keywordVars, siteVars, restVars>>

NextCompare == AnalyzeCompetitors \/ AnalyzeCompetitorsAdvanced

SpecCompare == InitCompare /\ [][NextCompare]_vars

(***************************************************************************)
(* The keyword comparison: analyze_competitors run on two texts, and run   *)
(* again on the same two texts.  A set of strings is iterated in the order *)
(* of the strings' hashes, which changes from one interpreter process to   *)
(* the next: every order of a small set, and two opposite orders of a      *)
(* larger one, are tried.                                                  *)
(***************************************************************************)
MaxTerms == 32

MaxPermuted == 4

Vocabulary ==
    <<"alpha", "bravo", "charlie", "delta", "echoes", "foxtrot", "golf", "hotel",
      "india", "juliet", "kilo", "lima", "mike", "november", "oscar", "papa",
      "quebec", "romeo", "sierra", "tango", "uniform", "victor", "whiskey", "xray",
      "yankee", "zulu", "amber", "birch", "cedar", "daisy", "ember", "frost",
      "grape", "hazel", "ivory", "jade">>

\* the words lo..hi of the vocabulary, word i written 2 + (i % m) times
RECURSIVE Text(_, _, _)
Text(lo, hi, m) ==
    IF lo > hi THEN <<>>
    ELSE [k \in 1..(2 + (lo % m)) |-> Vocabulary[lo]] \o Text(lo + 1, hi, m)

Reverse(list) == [i \in DOMAIN list |-> list[Len(list) + 1 - i]]

\* texts with more keywords than a list keeps
LongTexts ==
    {<<>>, Text(1, MaxTerms, 3), Text(1, MaxTerms, 1), Text(4, MaxTerms + 3, 3),
     Text(1, 1, 1) \o Text(MaxTerms + 1, MaxTerms + 2, 1)}

\* texts with a stop word, a word written once, and keywords of equal importance
ShortTexts ==
    {<<>>, Text(1, 3, 1) \o <<"this", "this", "zulu">>, Text(1, 4, 1),
     Reverse(Text(1, 4, 2)), Text(2, 5, 3)}

TextPairs == (LongTexts \X LongTexts) \cup (ShortTexts \X ShortTexts)

RECURSIVE Permutations_(_)
Permutations_(S) ==
    IF S = {} THEN {<<>>}
    ELSE UNION {{<<x>> \o rest : rest \in Permutations_(S \ {x})} : x \in S}

\* the orders in which the set set(words1.keys()) & set(words2.keys()) may be iterated
IterationOrders(keywords1, keywords2) ==
    LET both == WordSet(keywords1) \cap WordSet(keywords2)
        listed == SelectSeq(Words(keywords1), LAMBDA w : w \in both)
    IN  IF Cardinality(both) <= MaxPermuted
        THEN Permutations_(both)
        ELSE {listed, Reverse(listed)}

InitKeywords ==
    /\ \E pair \in TextPairs : text1 = pair[1] /\ text2 = pair[2]
    /\ keyword_comparison = <<>> /\ previous_comparison = <<>>
    /\ kw_pc = "ready"
    /\ page_data = EmptyDict /\ outcome = EmptyDict /\ feature_flags = EmptyDict
    /\ analyzers = {}
    /\ page_score = EmptyDict /\ pc = "idle"
    /\ site1 = EmptyDict /\ site2 = EmptyDict
    /\ result1 = EmptyDict /\ result2 = EmptyDict
    /\ comparison = EmptyDict /\ advantage_score = EmptyDict
    /\ winner = EmptyDict /\ cmp = "idle"
    /\ IdleSite /\ IdleRest

\* CompetitorAnalyzer.analyze_competitors: the keywords of both results and the
\* 'keywords' part of _compare_results
CompareKeywords ==
    /\ kw_pc \in {"ready", "basic"}
    /\ LET keywords1 == _extract_keywords(text1)
           keywords2 == _extract_keywords(text2)
       IN  \E order \in IterationOrders(keywords1, keywords2) :
               keyword_comparison' =
                   [keywords1 |-> keywords1,
                    keywords2 |-> keywords2,
                    common_keywords |-> _find_common_keywords(keywords1, keywords2, order),
                    unique_to_your_site |-> _find_unique_keywords(keywords1, keywords2),
                    unique_to_competitor |-> _find_unique_keywords(keywords2, keywords1)]
    /\ previous_comparison' = keyword_comparison
    /\ kw_pc' = IF kw_pc = "ready" THEN "basic" ELSE "basic_again"
    /\ UNCHANGED <<text1, text2>>
    /\ UNCHANGED <<auditVars, compareVars, siteVars, restVars>>

\* AdvancedCompetitorAnalyzer.analyze_competitors: the keywords of both results and
\* the 'keywords' part of _deep_compare_results
CompareKeywordsAdvanced ==
    /\ kw_pc \in {"ready", "advanced"}
    /\ LET keywords1 == _extract_keywords_advanced(text1)
           keywords2 == _extract_keywords_advanced(text2)
       IN  \E order \in IterationOrders(keywords1, keywords2) :
               keyword_comparison' =
                   [keywords1 |-> keywords1,
                    keywords2 |-> keywords2,
                    common_keywords |->
                        _find_common_keywords_advanced(keywords1, keywords2, order),
                    unique_to_your_site |->
                        _find_unique_keywords_advanced(keywords1, keywords2),
                    unique_to_competitor |->
                        _find_unique_keywords_advanced(keywords2, keywords1)]
    /\ previous_comparison' = keyword_comparison
    /\ kw_pc' = IF kw_pc = "ready" THEN "advanced" ELSE "advanced_again"
    /\ UNCHANGED <<text1, text2>>
    /\ UNCHANGED <<auditVars, compareVars, siteVars, restVars>>

NextKeywords == CompareKeywords \/ CompareKeywordsAdvanced

SpecKeywords == InitKeywords /\ [][NextKeywords]_vars

(***************************************************************************)
(* The site score: one call of calculate_site_score on a list of pages     *)
(***************************************************************************)
MaxPages == 4

\* the page with the url under which the site report lists it
WithUrl(page, url) == ("url" :> url) @@ page

MidPage ==
    [title |-> Str(29), meta_description |-> Str(140), h1_tags |-> <<"h", "h">>,
     h2_tags |-> <<>>, images |-> <<>>, canonical_url |-> Str(1), word_count |-> 499,
     status_code |-> 301, broken_links |-> Links(1)]

SitePages ==
    {WithUrl(BestPage, <<"b">>), WithUrl(WorstPage, <<"w">>), WithUrl(MidPage, <<"m">>),
     EmptyDict}

PageLists == UNION {[1..n -> SitePages] : n \in 0..MaxPages}

InitSite ==
    /\ pages \in PageLists
    /\ site_score = <<>>
    /\ site_pc = "ready"
    /\ page_data = EmptyDict /\ outcome = EmptyDict /\ feature_flags = EmptyDict
    /\ analyzers = {}
    /\ page_score = EmptyDict /\ pc = "idle"
    /\ site1 = EmptyDict /\ site2 = EmptyDict
    /\ result1 = EmptyDict /\ result2 = EmptyDict
    /\ comparison = EmptyDict /\ advantage_score = EmptyDict
    /\ winner = EmptyDict /\ cmp = "idle"
    /\ IdleKeywords /\ IdleRest

\* scorer.calculate_site_score(pages)
CalculateSiteScore ==
    /\ site_pc = "ready"
    /\ site_score' \in calculate_site_score(pages)
    /\ site_pc' = "done"
    /\ UNCHANGED pages
    /\ UNCHANGED <<auditVars, compareVars, keywordVars, restVars>>

NextSite == CalculateSiteScore

SpecSite == InitSite /\ [][NextSite]_vars

(***************************************************************************)
(* robots.txt: threads calling analyze_page on one analyzer.  A call reads *)
(* the cache, and on a miss issues the GET (during which other threads     *)
(* run), then stores a 200 answer and works out the verdict.               *)
(***************************************************************************)
MaxCalls == 2

MaxLines == 4

Callers == {"t1", "t2"}

Domains == {"a.example", "b.example"}

Paths == {<<"/", "a", "/", "b">>, <<"/", "b">>}

Line(field, value) == [field |-> field, value |-> value]

RobotsLinesUsed ==
    {Line("User-agent", <<"*">>), Line("User-agent", <<"Googlebot">>),
     Line("User-agent", <<"bingbot">>),
     Line("Disallow", <<"/", "a">>), Line("Allow", <<"/", "a", "/">>),
     Line("Disallow", <<"/", "*", "b", "$">>), Line("Allow", <<"/">>),
     Line("disallow", <<>>), Line("#", <<>>)}

RobotsFiles == UNION {[1..n -> RobotsLinesUsed] : n \in 1..MaxLines}

\* what session.get gives: a response with a status code and a text, or an exception
Response(status_code, text) == [status_code |-> status_code, text |-> text]

Raises == [raises |-> TRUE]

FewResponses ==
    {Raises, Response(404, <<>>), Response(200, <<>>),
     Response(200, <<Line("User-agent", <<"*">>), Line("Disallow", <<"/", "a">>)>>)}

Waiting(calls) ==
    [pc |-> "idle", calls |-> calls, domain |-> "", path |-> <<>>, response |-> Raises,
     result |-> <<>>]

\* two threads, MaxCalls pages each, on domains that answer in any of the ways
InitRobots ==
    /\ robots_served \in [Domains -> FewResponses]
    /\ _robots_txt_cache = <<>>
    /\ caller = [t \in Callers |-> Waiting(0)]
    /\ fetches = [d \in Domains |-> 0]
    /\ IdleAudit /\ IdleCompare /\ IdleKeywords /\ IdleSite /\ IdleExtract
    /\ IdleAccessibility /\ IdleLinks /\ IdleCrawl

\* one page of a domain that serves a robots.txt, any robots.txt
InitRobotsRules ==
    /\ \E text \in RobotsFiles :
           robots_served = [d \in Domains |-> Response(200, text)]
    /\ _robots_txt_cache = <<>>
    /\ caller = [t \in Callers |-> Waiting(IF t = "t1" THEN MaxCalls - 1 ELSE MaxCalls)]
    /\ fetches = [d \in Domains |-> 0]
    /\ IdleAudit /\ IdleCompare /\ IdleKeywords /\ IdleSite /\ IdleExtract
    /\ IdleAccessibility /\ IdleLinks /\ IdleCrawl

\* analyze_page(html_content, page_url): thread t enters _check_robots_txt
EnterCheckRobotsTxt(t, domain, path) ==
    /\ caller[t].pc \in {"idle", "done"}
    /\ caller[t].calls < MaxCalls
    /\ caller' = [caller EXCEPT ![t] = [pc |-> "check", calls |-> caller[t].calls + 1,
                                        domain |-> domain, path |-> path,
                                        response |-> Raises, result |-> <<>>]]
    /\ UNCHANGED <<robots_served, _robots_txt_cache, fetches>>
    /\ UNCHANGED <<auditVars, compareVars, keywordVars, siteVars, extractVars, a11yVars,
                   linkVars, crawlVars>>

\* if domain in self._robots_txt_cache: the cached text gives the verdict
CheckCache(t) ==
    /\ caller[t].pc = "check"
    /\ IF caller[t].domain \in DOMAIN _robots_txt_cache
       THEN caller' = [caller EXCEPT ![t].pc = "done",
                           ![t].result = RobotsVerdict(_robots_txt_cache[caller[t].domain],
                                                       caller[t].path)]
       ELSE caller' = [caller EXCEPT ![t].pc = "get"]
    /\ UNCHANGED <<robots_served, _robots_txt_cache, fetches>>
    /\ UNCHANGED <<auditVars, compareVars, keywordVars, siteVars, extractVars, a11yVars,
                   linkVars, crawlVars>>

\* response = self.session.get(robots_url, timeout=5)
SessionGet(t) ==
    /\ caller[t].pc = "get"
    /\ fetches' = [fetches EXCEPT ![caller[t].domain] = @ + 1]
    /\ caller' = [caller EXCEPT ![t].pc = "got", ![t].response = robots_served[caller[t].domain]]
    /\ UNCHANGED <<robots_served, _robots_txt_cache>>
    /\ UNCHANGED <<auditVars, compareVars, keywordVars, siteVars, extractVars, a11yVars,
                   linkVars, crawlVars>>

\* the cache after the answer: only a 200 answer is stored
Cached(cache, domain, response) ==
    IF "raises" \notin DOMAIN response /\ response.status_code = 200
    THEN (domain :> response.text) @@ cache
    ELSE cache

\* robots_content after the answer
RobotsContent(response) ==
    IF "raises" \notin DOMAIN response /\ response.status_code = 200
    THEN response.text
    ELSE <<>>

\* the rest of _check_robots_txt once the GET has returned or raised
StoreAndJudge(t) ==
    /\ caller[t].pc = "got"
    /\ _robots_txt_cache' = Cached(_robots_txt_cache, caller[t].domain, caller[t].response)
    /\ caller' = [caller EXCEPT ![t].pc = "done",
                      ![t].result = RobotsVerdict(RobotsContent(caller[t].response),
                                                  caller[t].path)]
    /\ UNCHANGED <<robots_served, fetches>>
    /\ UNCHANGED <<auditVars, compareVars, keywordVars, siteVars, extractVars, a11yVars,
                   linkVars, crawlVars>>

NextRobots ==
    \E t \in Callers :
        \/ \E domain \in Domains, path \in Paths : EnterCheckRobotsTxt(t, domain, path)
        \/ CheckCache(t)
        \/ SessionGet(t)
        \/ StoreAndJudge(t)

SpecRobots == InitRobots /\ [][NextRobots]_vars

SpecRobotsRules == InitRobotsRules /\ [][NextRobots]_vars

(***************************************************************************)
(* The extraction: _analyze_url_comprehensive on one fetched document      *)
(***************************************************************************)
MaxElements == 3

Elements ==
    {Element("meta", "robots", "noindex"), Element("meta", "viewport", "width=device-width"),
     Element("meta", "description", "text"), Element("script", "src", "a.js"),
     Element("script", "", "code"), Element("link", "stylesheet", "a.css"),
     Element("p", "", "text"), Element("img", "srcset", "a.png")}

Documents == UNION {[1..n -> Elements] : n \in 0..MaxElements}

InitExtract ==
    /\ response_text \in Documents
    /\ soup = response_text
    /\ analysis = <<>>
    /\ extract_pc = "fetched"
    /\ IdleAudit /\ IdleCompare /\ IdleKeywords /\ IdleSite /\ IdleRobots
    /\ IdleAccessibility /\ IdleLinks /\ IdleCrawl

\* _analyze_url_comprehensive from 'soup = BeautifulSoup(...)' on
AnalyzeUrlComprehensive ==
    /\ extract_pc = "fetched"
    /\ analysis' = ExtractAll(soup)
    /\ soup' = Decompose(soup)
    /\ extract_pc' = "analyzed"
    /\ UNCHANGED response_text
    /\ UNCHANGED <<auditVars, compareVars, keywordVars, siteVars, robotsVars, a11yVars,
                   linkVars, crawlVars>>

NextExtract == AnalyzeUrlComprehensive

SpecExtract == InitExtract /\ [][NextExtract]_vars

(***************************************************************************)
(* The accessibility analysis: one call of analyze_accessibility           *)
(***************************************************************************)
MaxItems == 2

UpTo(n, S) == UNION {[1..k -> S] : k \in 0..n}

AccessibilityDocuments ==
    [images : UpTo(MaxItems, {<<>>, <<"l", "o", "g", "o">>}),
     links : UpTo(MaxItems, {[text |-> "Pricing", aria_label |-> FALSE],
                             [text |-> "", aria_label |-> TRUE],
                             [text |-> "click here", aria_label |-> FALSE],
                             [text |-> "Read More", aria_label |-> FALSE]}),
     inputs : UpTo(MaxItems, {[label |-> TRUE, aria_label |-> FALSE],
                              [label |-> FALSE, aria_label |-> TRUE],
                              [label |-> FALSE, aria_label |-> FALSE]}),
     aria_elements : {0, 1, 60},
     semantic_elements : {0, 1, 12}]

InitAccessibility ==
    /\ a11y_document \in AccessibilityDocuments
    /\ a11y_result = <<>>
    /\ a11y_pc = "ready"
    /\ IdleAudit /\ IdleCompare /\ IdleKeywords /\ IdleSite /\ IdleRobots /\ IdleExtract
    /\ IdleLinks /\ IdleCrawl

\* analyzer.analyze_accessibility(soup, url)
AnalyzeAccessibility ==
    /\ a11y_pc = "ready"
    /\ a11y_result' \in analyze_accessibility(a11y_document)
    /\ a11y_pc' = "done"
    /\ UNCHANGED a11y_document
    /\ UNCHANGED <<auditVars, compareVars, keywordVars, siteVars, robotsVars, extractVars,
                   linkVars, crawlVars>>

NextAccessibility == AnalyzeAccessibility

SpecAccessibility == InitAccessibility /\ [][NextAccessibility]_vars

(***************************************************************************)
(* LinkAnalyzer: the site-wide link analysis.  A page of all_pages has its *)
(* url and, under link_analysis, the list of its internal links.  A set of *)
(* strings is iterated in the order of the strings' hashes: every order is *)
(* tried.                                                                  *)
(***************************************************************************)
\* urlparse(url).path of the urls that occur
UrlPath(url) ==
    CASE url = "https://s.example/" -> "/"
      [] url = "https://s.example" -> ""
      [] url = "https://s.example/a" -> "/a"
      [] url = "https://s.example/b" -> "/b"
      [] url = "https://s.example/c" -> "/c"
      [] url = "https://s.example/x" -> "/x"
      [] OTHER -> ""

\* page.get('link_analysis', {}).get('internal_links', [])
InternalLinks(page) == Get(Get(page, "link_analysis", EmptyDict), "internal_links", <<>>)

\* the turns of the inner loop 'for link in internal_links' that pass
\* 'if link_url': link k of page i
LinksFollowed(all_pages_) ==
    UNION {{<<i, k>> : k \in {k \in DOMAIN InternalLinks(all_pages_[i]) :
                                 InternalLinks(all_pages_[i])[k].url # ""}} :
              i \in DOMAIN all_pages_}

\* link_graph[page_url] after the loop over the pages; a url without an
\* entry has no links
LinkGraph(all_pages_, page_url) ==
    {InternalLinks(all_pages_[l[1]])[l[2]].url :
        l \in {l \in LinksFollowed(all_pages_) : Get(all_pages_[l[1]], "url", "") = page_url}}

\* incoming_links.get(link_url, 0) after the loop over the pages
IncomingLinks(all_pages_, link_url) ==
    Cardinality({l \in LinksFollowed(all_pages_) :
                    InternalLinks(all_pages_[l[1]])[l[2]].url = link_url})

AllUrls(all_pages_) == {Get(all_pages_[i], "url", "") : i \in DOMAIN all_pages_}

\* the urls 'for url in all_urls' appends to orphan_pages
OrphanUrls(all_pages_, current_url_) ==
    {url \in AllUrls(all_pages_) :
        url # current_url_ /\ IncomingLinks(all_pages_, url) = 0}

\* the first page whose path is '/' or '', None (here "") without one
RECURSIVE Homepage(_)
Homepage(all_pages_) ==
    IF all_pages_ = <<>> THEN ""
    ELSE IF UrlPath(Get(Head(all_pages_), "url", "")) \in {"/", ""}
    THEN Get(Head(all_pages_), "url", "")
    ELSE Homepage(Tail(all_pages_))

Eligible_Unvisited(linked_url, visited, all_urls) == linked_url \notin visited

\* if linked_url not in visited and linked_url in all_urls
Eligible(linked_url, visited, all_urls) == linked_url \notin visited /\ linked_url \in all_urls

\* 'for linked_url in link_graph.get(current_url, [])' over the links in one order
RECURSIVE ScanLinked(_, _, _, _)
ScanLinked(st, linked, depth, all_urls) ==
    IF linked = <<>> THEN st
    ELSE LET linked_url == Head(linked)
         IN  IF Eligible(linked_url, st.visited, all_urls)
             THEN ScanLinked([depths |-> (linked_url :> depth + 1) @@ st.depths,
                              visited |-> st.visited \cup {linked_url},
                              queue |-> Append(st.queue, <<linked_url, depth + 1>>)],
                             Tail(linked), depth, all_urls)
             ELSE ScanLinked(st, Tail(linked), depth, all_urls)

\* the 'while queue' loop: the depths it may end with
RECURSIVE SearchFrom(_, _, _)
SearchFrom(st, all_pages_, all_urls) ==
    IF st.queue = <<>> THEN {st.depths}
    ELSE LET current == Head(st.queue)
             popped == [st EXCEPT !.queue = Tail(st.queue)]
         IN  UNION {SearchFrom(ScanLinked(popped, linked, current[2], all_urls),
                               all_pages_, all_urls) :
                       linked \in Permutations_(LinkGraph(all_pages_, current[1]))}

_calculate_link_depths(start_url, all_pages_, all_urls) ==
    SearchFrom([depths |-> (start_url :> 0), visited |-> {start_url},
                queue |-> <<<<start_url, 0>>>>], all_pages_, all_urls)

\* _analyze_site_links: the values the call may return
_analyze_site_links(all_pages_, current_url_) ==
    {[total_pages |-> Len(all_pages_),
      orphan_pages |-> orphan_pages,
      orphan_count |-> Len(orphan_pages),
      link_depths |-> link_depths,
      max_depth |-> IF link_depths = <<>> THEN 0 ELSE MaxOf(Values(link_depths))] :
         orphan_pages \in Permutations_(OrphanUrls(all_pages_, current_url_)),
         link_depths \in (IF Homepage(all_pages_) # ""
                          THEN _calculate_link_depths(Homepage(all_pages_), all_pages_,
                                                      AllUrls(all_pages_))
                          ELSE {<<>>})}

(***************************************************************************)
(* The link analysis: one call of analyze_links with all_pages on the      *)
(* crawled pages of a site                                                 *)
(***************************************************************************)
MaxCrawled == 3

CrawledUrls == <<"https://s.example/", "https://s.example/a", "https://s.example/b",
                 "https://s.example/c", "https://s.example/d">>

\* a link of some page that leads to no crawled page
Uncrawled == "https://s.example/x"

\* what a page links to: at most two of itself (0), the next page (1), the
\* page after that (2), counting on from the first page after the last, and
\* a url that was not crawled (3)
LinkShapes ==
    {<<>>} \cup {<<a>> : a \in 0..3} \cup {<<p[1], p[2]>> : p \in {p \in (0..3) \X (0..3) : p[1] < p[2]}}

\* the url that page i of a site of n pages links to as t; the site's first
\* page has the first or the second of the crawled urls
Target(n, first, i, t) ==
    IF t = 3 THEN Uncrawled ELSE CrawledUrls[first + ((i - 1 + t) % n)]

\* the site of n crawled pages whose pages link as shape says
CrawledSite(n, first, shape) ==
    [i \in 1..n |->
        [url |-> Target(n, first, i, 0),
         link_analysis |->
             [internal_links |->
                 [k \in DOMAIN shape[i] |-> [url |-> Target(n, first, i, shape[i][k])]]]]]

\* a site with the homepage first or without a homepage; the page analyzed
\* is its first or its last page
InitLinks ==
    /\ \E n \in 1..MaxCrawled, first \in {1, 2} :
           \E shape \in [1..n -> LinkShapes] : all_pages = CrawledSite(n, first, shape)
    /\ current_url \in {all_pages[1].url, all_pages[Len(all_pages)].url}
    /\ site_analysis = <<>>
    /\ link_pc = "ready"
    /\ IdleAudit /\ IdleCompare /\ IdleKeywords /\ IdleSite /\ IdleRobots /\ IdleExtract
    /\ IdleAccessibility /\ IdleCrawl

\* analyze_links(soup, url, all_pages): site_analysis = self._analyze_site_links(all_pages, url)
AnalyzeSiteLinks ==
    /\ link_pc = "ready"
    /\ site_analysis' \in _analyze_site_links(all_pages, current_url)
    /\ link_pc' = "done"
    /\ UNCHANGED <<all_pages, current_url>>
    /\ UNCHANGED <<auditVars, compareVars, keywordVars, siteVars, robotsVars, extractVars,
                   a11yVars, crawlVars>>

NextLinks == AnalyzeSiteLinks

SpecLinks == InitLinks /\ [][NextLinks]_vars

(***************************************************************************)
(* app.py: one crawl job.  start_crawl records the job in active_crawls    *)
(* and starts the crawl thread (run_crawl_async), which starts the monitor *)
(* thread (monitor_progress); the crawler subprocess writes progress.json. *)
(* Every assignment to the job's dict is a step of its thread, and request *)
(* handlers read the dict between any two steps.  socketio.emit and        *)
(* time.sleep change nothing here.                                         *)
(***************************************************************************)
MaxIterations == 2

MaxPagesFound == 2

JobId == "job"

\* active_crawls[job_id][key] = value
Assign(key, value) == [op |-> "assign", key |-> key, value |-> value]

OutputFiles == [json |-> "report.json", csv |-> "summary.csv", sitemap |-> "sitemap.txt"]

\* the statements of run_crawl_async in their order: the try block, then the
\* except block
run_crawl_async ==
    <<Assign("status", "initializing"),
      Assign("message", "Initializing crawler..."),
      Assign("progress", 5),
      Assign("status", "crawling"),
      Assign("message", "Starting to crawl website..."),
      Assign("progress", 10),
      [op |-> "CrawlerRunner"],
      [op |-> "monitor_thread.start"],
      [op |-> "runner.run"],
      Assign("status", "processing"),
      Assign("message", "Processing results and checking links..."),
      Assign("progress", 70),
      Assign("status", "generating"),
      Assign("message", "Generating reports..."),
      Assign("progress", 90),
      Assign("status", "completed"),
      Assign("message", "Crawl completed successfully!"),
      Assign("progress", 100),
      Assign("completed_at", "now"),
      [op |-> "pages_crawled"],
      Assign("output_files", OutputFiles),
      [op |-> "return"],
      Assign("status", "error"),
      Assign("message", "Error"),
      [op |-> "errors.append"],
      [op |-> "return"]>>

\* the first statement of the except block
ExceptBlock == CHOOSE i \in DOMAIN run_crawl_async : run_crawl_async[i] = Assign("status", "error")

\* the position of a thread that has returned
Returned_ == 0

\* the dict start_crawl stores
NewJob ==
    [status |-> "starting", progress |-> 0, message |-> "Initializing crawler...",
     pages_crawled |-> 0, links_found |-> 0, errors |-> <<>>]

\* int(min(60, 10 + (pages / max(20, pages * 2)) * 50))
CrawlProgress(pages_) == Min(60, 10 + (pages_ * 50) \div Max(20, pages_ * 2))

\* the assignments of monitor_progress once 'pages > last_pages or pages > 0' holds
\* (progress.json is taken to report as many links as pages)
MonitorWrites(pages_) ==
    <<Assign("pages_crawled", pages_),
      Assign("links_found", pages_),
      Assign("progress", CrawlProgress(pages_)),
      Assign("message", "Crawling...")>>

\* the statuses under which 'while active_crawls[job_id]['status'] in [...]' goes on
MonitorLoops == {"crawling", "initializing", "processing"}

InitCrawl ==
    /\ active_crawls = <<>>
    /\ crawl_pc = Returned_
    /\ monitor = [pc |-> "unstarted", iteration |-> 0, pages |-> 0, last_pages |-> 0,
                  write |-> 1]
    /\ progress_file = 0
    /\ results_response = "none"
    /\ IdleAudit /\ IdleCompare /\ IdleKeywords /\ IdleSite /\ IdleRobots /\ IdleExtract
    /\ IdleAccessibility /\ IdleLinks

OthersUnchanged ==
    UNCHANGED <<auditVars, compareVars, keywordVars, siteVars, robotsVars, extractVars,
                a11yVars, linkVars>>

\* start_crawl: active_crawls[job_id] = {...}; thread.start()
StartCrawl ==
    /\ JobId \notin DOMAIN active_crawls
    /\ active_crawls' = (JobId :> NewJob)
    /\ crawl_pc' = 1
    /\ UNCHANGED <<monitor, progress_file, results_response>>
    /\ OthersUnchanged

Running == crawl_pc \in DOMAIN run_crawl_async

\* an assignment of run_crawl_async to the job's dict
CrawlAssign ==
    /\ Running /\ run_crawl_async[crawl_pc].op = "assign"
    /\ active_crawls' = [active_crawls EXCEPT ![JobId] =
           (run_crawl_async[crawl_pc].key :> run_crawl_async[crawl_pc].value) @@ @]
    /\ crawl_pc' = crawl_pc + 1
    /\ UNCHANGED <<monitor, progress_file, results_response>>
    /\ OthersUnchanged

\* from crawl import CrawlerRunner; runner = CrawlerRunner(...): returns or raises
CreateRunner ==
    /\ Running /\ run_crawl_async[crawl_pc].op = "CrawlerRunner"
    /\ crawl_pc' \in {crawl_pc + 1, ExceptBlock}
    /\ UNCHANGED <<active_crawls, monitor, progress_file, results_response>>
    /\ OthersUnchanged

\* monitor_thread.start()
StartMonitor ==
    /\ Running /\ run_crawl_async[crawl_pc].op = "monitor_thread.start"
    /\ monitor' = [monitor EXCEPT !.pc = "while"]
    /\ crawl_pc' = crawl_pc + 1
    /\ UNCHANGED <<active_crawls, progress_file, results_response>>
    /\ OthersUnchanged

\* the crawler subprocess, while runner.run() waits for it, writes progress.json
WriteProgressFile ==
    /\ Running /\ run_crawl_async[crawl_pc].op = "runner.run"
    /\ progress_file < MaxPagesFound
    /\ progress_file' = progress_file + 1
    /\ UNCHANGED <<active_crawls, crawl_pc, monitor, results_response>>
    /\ OthersUnchanged

\* runner.run() returns or raises
RunnerRun ==
    /\ Running /\ run_crawl_async[crawl_pc].op = "runner.run"
    /\ crawl_pc' \in {crawl_pc + 1, ExceptBlock}
    /\ UNCHANGED <<active_crawls, monitor, progress_file, results_response>>
    /\ OthersUnchanged

\* active_crawls[job_id]['pages_crawled'] = len(runner.crawled_items)
AssignPagesCrawled ==
    /\ Running /\ run_crawl_async[crawl_pc].op = "pages_crawled"
    /\ active_crawls' = [active_crawls EXCEPT ![JobId].pages_crawled = progress_file]
    /\ crawl_pc' = crawl_pc + 1
    /\ UNCHANGED <<monitor, progress_file, results_response>>
    /\ OthersUnchanged

\* active_crawls[job_id]['errors'].append(error_msg)
AppendError ==
    /\ Running /\ run_crawl_async[crawl_pc].op = "errors.append"
    /\ active_crawls' = [active_crawls EXCEPT ![JobId].errors = Append(@, "Error")]
    /\ crawl_pc' = crawl_pc + 1
    /\ UNCHANGED <<monitor, progress_file, results_response>>
    /\ OthersUnchanged

\* the end of the try block or of the except block
CrawlReturn ==
    /\ Running /\ run_crawl_async[crawl_pc].op = "return"
    /\ crawl_pc' = Returned_
    /\ UNCHANGED <<active_crawls, monitor, progress_file, results_response>>
    /\ OthersUnchanged

\* while active_crawls[job_id]['status'] in [...] and iteration < max_iterations
MonitorWhile ==
    /\ monitor.pc = "while"
    /\ monitor' = [monitor EXCEPT !.pc =
           IF active_crawls[JobId].status \in MonitorLoops /\ monitor.iteration < MaxIterations
           THEN "read" ELSE "returned"]
    /\ UNCHANGED <<active_crawls, crawl_pc, progress_file, results_response>>
    /\ OthersUnchanged

\* the read of progress.json and 'if pages > last_pages or pages > 0'
MonitorRead ==
    /\ monitor.pc = "read"
    /\ monitor' = [monitor EXCEPT !.pages = progress_file,
                                  !.pc = IF progress_file > monitor.last_pages \/ progress_file > 0
                                         THEN "write" ELSE "sleep",
                                  !.write = 1]
    /\ UNCHANGED <<active_crawls, crawl_pc, progress_file, results_response>>
    /\ OthersUnchanged

\* an assignment of monitor_progress to the job's dict
MonitorAssign ==
    /\ monitor.pc = "write"
    /\ LET write == MonitorWrites(monitor.pages)[monitor.write]
       IN  active_crawls' = [active_crawls EXCEPT ![JobId] = (write.key :> write.value) @@ @]
    /\ monitor' = IF monitor.write < Len(MonitorWrites(monitor.pages))
                  THEN [monitor EXCEPT !.write = @ + 1]
                  ELSE [monitor EXCEPT !.pc = "sleep", !.last_pages = monitor.pages]
    /\ UNCHANGED <<crawl_pc, progress_file, results_response>>
    /\ OthersUnchanged

\* iteration += 1; time.sleep(1)
MonitorSleep ==
    /\ monitor.pc = "sleep"
    /\ monitor' = [monitor EXCEPT !.pc = "while", !.iteration = @ + 1]
    /\ UNCHANGED <<active_crawls, crawl_pc, progress_file, results_response>>
    /\ OthersUnchanged

\* get_crawl_results(job_id) while the job is in active_crawls: where it takes
\* the report's path from
get_crawl_results(crawl_info) ==
    IF crawl_info.status # "completed" THEN "Crawl not completed yet"
    ELSE IF Get(Get(crawl_info, "output_files", EmptyDict), "json", "") # ""
    THEN "output_files"
    ELSE "possible_paths"

GetCrawlResults ==
    /\ JobId \in DOMAIN active_crawls
    /\ results_response' = get_crawl_results(active_crawls[JobId])
    /\ UNCHANGED <<active_crawls, crawl_pc, monitor, progress_file>>
    /\ OthersUnchanged

NextCrawl ==
    \/ StartCrawl
    \/ CrawlAssign
    \/ CreateRunner
    \/ StartMonitor
    \/ WriteProgressFile
    \/ RunnerRun
    \/ AssignPagesCrawled
    \/ AppendError
    \/ CrawlReturn
    \/ MonitorWhile
    \/ MonitorRead
    \/ MonitorAssign
    \/ MonitorSleep
    \/ GetCrawlResults

SpecCrawl == InitCrawl /\ [][NextCrawl]_vars

(***************************************************************************)
(* Properties                                                              *)
(***************************************************************************)
\* the page score a finished call produced, if it produced one
Scored ==
    \/ pc = "scored"
    \/ pc = "analyzed" /\ Scores(feature_flags, analyzers)

ScoreOf == IF pc = "scored" THEN page_score ELSE page_data["comprehensive_seo_score"]

\* the page_data the scorer was called on
ScoredInput == Without(page_data, {"comprehensive_seo_score"})

Compared == cmp \in {"basic", "advanced"}

\* the metrics that carry a winner field, with their direction
WinnerMetrics(c, which) ==
    IF which = "basic"
    THEN <<[m |-> c.load_speed, lower |-> TRUE],
           [m |-> c.errors, lower |-> TRUE],
           [m |-> c.seo_score, lower |-> FALSE]>>
    ELSE <<[m |-> c.performance.load_time, lower |-> TRUE],
           [m |-> c.performance.page_size, lower |-> TRUE],
           [m |-> c.performance.performance_score, lower |-> FALSE],
           [m |-> c.seo.seo_score, lower |-> FALSE],
           [m |-> c.technical.technical_score, lower |-> FALSE]>>

StrictlyBetter(lower, a, b) == IF lower THEN a < b ELSE a > b

\* C1: every metric with a winner field reports 'tie' when the two sides have equal
\* values and names a side only when that side's value is strictly better.
C1_TieOnEqualValues ==
    Compared =>
        \A i \in DOMAIN WinnerMetrics(comparison, cmp) :
            LET e == WinnerMetrics(comparison, cmp)[i]
            IN  /\ e.m.your_site = e.m.competitor => e.m.winner = "tie"
                /\ e.m.winner = "your_site"
                     => StrictlyBetter(e.lower, e.m.your_site, e.m.competitor)
                /\ e.m.winner = "competitor"
                     => StrictlyBetter(e.lower, e.m.competitor, e.m.your_site)

\* C2: each of the four category scores of calculate_page_score lies in [0,100].
C2_CategoryScoresInRange ==
    Scored =>
        \A i \in DOMAIN Categories :
            /\ ScoreOf.category_scores[Categories[i]] >= 0
            /\ ScoreOf.category_scores[Categories[i]] <= 100

\* every deduction of every category fires at once and both capped deductions are
\* at their cap
C2_Witness ==
    /\ pc = "scored"
    /\ Len(PerformanceEval(page_data).deductions) = 5
    /\ Len(SeoEval(page_data).deductions) = 6
    /\ Len(ContentEval(page_data).deductions) = 3
    /\ Len(TechnicalEval(page_data).deductions) = 5
    /\ page_data["security_analysis"].mixed_content.count > 10
    /\ Len(page_data["broken_links"]) > 5

Failed == {a \in Analyzers : Runs(feature_flags, analyzers, a) /\ outcome[a].raised}

\* C4: when an analyzer fails inside analyze_page and its section is {error: message},
\* every category score equals the score computed when that section is absent.
C4_FailedSectionIsNeutral ==
    (pc = "analyzed" /\ Scores(feature_flags, analyzers)) =>
        \A a \in Failed :
            ScoreOf.category_scores =
                calculate_page_score(Without(ScoredInput, {Section[a]})).category_scores

\* C5: whichever analyzers raise, analyze_page returns page_data; each failing
\* analyzer's section is omitted or {error: message}; every other analyzer's section
\* is what that analyzer returned.
C5_FailuresAreIsolated ==
    pc = "analyzed" =>
        /\ page_score = page_data
        /\ \A a \in Analyzers :
              Runs(feature_flags, analyzers, a) =>
                  IF outcome[a].raised
                  THEN \/ Section[a] \notin DOMAIN page_data
                       \/ page_data[Section[a]] = [error |-> outcome[a].message]
                  ELSE /\ Section[a] \in DOMAIN page_data
                       /\ page_data[Section[a]] = outcome[a].value

\* some analyzers raise, others return, and the page came with sections of its own
C5_Witness ==
    /\ pc = "analyzed"
    /\ Cardinality(Failed) = 2
    /\ \E a \in Analyzers : Runs(feature_flags, analyzers, a) /\ ~outcome[a].raised
    /\ "security" \in Failed
    /\ outcome.indexability = Returned(IndexResult("indexable"))
    /\ page_data["indexability_analysis"] = IndexResult("indexable")

CwvReasons == {"LCP is poor", "LCP needs improvement", "CLS is poor",
               "CLS needs improvement", "INP is poor", "INP needs improvement"}

Reasons(eval) == {eval.deductions[i] : i \in DOMAIN eval.deductions}

\* C6: when the Core Web Vitals analyzer raises, or its result is absent, the
\* performance score is computed from the render-blocking count and the page size
\* only, with no LCP, CLS or INP deduction.
C6_NoVitalsNoDeduction ==
    (Scored /\ (\/ pc = "analyzed" /\ "core_web_vitals" \in Failed
                \/ "core_web_vitals" \notin DOMAIN ScoredInput))
        =>
        /\ Reasons(PerformanceEval(ScoredInput)) \cap CwvReasons = {}
        /\ ScoreOf.category_scores.performance =
               _score_performance(Without(ScoredInput, {"core_web_vitals"}))
        /\ ScoreOf.category_scores.performance =
               100 - (IF "render-blocking resources" \in Reasons(PerformanceEval(ScoredInput))
                      THEN (IF ScoredInput["render_loading_analysis"].render_blocking_resources
                                   .total_blocking_resources > 5 THEN 10 ELSE 5)
                      ELSE 0)
                   - (IF "Page size" \in Reasons(PerformanceEval(ScoredInput))
                      THEN (IF ScoredInput["advanced_performance"].resource_summary
                                   .total_page_size_mb > 500 THEN 10 ELSE 5)
                      ELSE 0)

\* the vitals analyzer raised a TimeoutError and the page has a non-vitals deduction
C6_Witness ==
    /\ pc = "analyzed" /\ Scores(feature_flags, analyzers)
    /\ "core_web_vitals" \in Failed
    /\ outcome.core_web_vitals.message = "TimeoutError"
    /\ page_data["core_web_vitals"] = [error |-> "TimeoutError"]
    /\ ScoreOf.category_scores.performance = 85

\* C7: a signal whose key is missing from page_data causes no deduction.
C7_AbsentCausesNoDeduction ==
    pc = "scored" =>
        /\ "title" \notin DOMAIN page_data
             => "Missing title tag" \notin Reasons(SeoEval(page_data))
        /\ "h1_tags" \notin DOMAIN page_data
             => /\ "Missing H1 tag" \notin Reasons(SeoEval(page_data))
                /\ "No H1 tag" \notin Reasons(ContentEval(page_data))
        /\ "canonical_url" \notin DOMAIN page_data
             => "Missing canonical URL" \notin Reasons(SeoEval(page_data))
        /\ "word_count" \notin DOMAIN page_data
             => "Thin content (less than 300 words)" \notin Reasons(ContentEval(page_data))

Flip(w) == IF w = "your_site" THEN "competitor"
           ELSE IF w = "competitor" THEN "your_site" ELSE w

\* the comparison of the same two results with the sides swapped
Swapped == IF cmp = "basic" THEN _compare_results(result2, result1)
           ELSE _deep_compare_results(result2, result1)

\* C8: swapping the two sides turns a win of one side into a win of the other and
\* leaves 'tie' unchanged, for every metric with a winner field.
C8_WinnerAntisymmetric ==
    Compared =>
        \A i \in DOMAIN WinnerMetrics(comparison, cmp) :
            WinnerMetrics(Swapped, cmp)[i].m.winner
                = Flip(WinnerMetrics(comparison, cmp)[i].m.winner)

\* the lower-is-better metrics of a comparison with the result key each compares
LowerMetrics(c, which) ==
    IF which = "basic"
    THEN <<[m |-> c.load_speed, key |-> "load_time"],
           [m |-> c.errors, key |-> "error_count"]>>
    ELSE <<[m |-> c.performance.load_time, key |-> "load_time"],
           [m |-> c.performance.page_size, key |-> "page_size"]>>

\* C9: on load time, page size and error count the side with the strictly smaller
\* value is the winner, and the load-time difference is the absolute difference.
C9_LowerIsBetter ==
    Compared =>
        /\ \A i \in DOMAIN LowerMetrics(comparison, cmp) :
              LET e == LowerMetrics(comparison, cmp)[i]
              IN  (e.key \in DOMAIN result1 /\ e.key \in DOMAIN result2) =>
                      /\ result1[e.key] < result2[e.key] => e.m.winner = "your_site"
                      /\ result2[e.key] < result1[e.key] => e.m.winner = "competitor"
        /\ LowerMetrics(comparison, cmp)[1].m.difference
               = Abs(LowerMetrics(comparison, cmp)[1].m.your_site
                       - LowerMetrics(comparison, cmp)[1].m.competitor)
        /\ ("load_time" \in DOMAIN result1 /\ "load_time" \in DOMAIN result2) =>
               LowerMetrics(comparison, cmp)[1].m.difference
                   = Abs(result1["load_time"] - result2["load_time"])

\* 1.2s against 3.4s: the first side wins and the difference is 2.2s
C9_Witness ==
    /\ cmp = "advanced"
    /\ result1["load_time"] = 1200 /\ result2["load_time"] = 3400
    /\ comparison.performance.load_time.winner = "your_site"
    /\ comparison.performance.load_time.difference = 2200
    /\ result2["page_size"] < result1["page_size"]
    /\ comparison.performance.page_size.winner = "competitor"

\* the pairs of values the advantage tally looks at
TalliedValues(c, which) ==
    IF which = "basic"
    THEN <<c.load_speed, c.errors, c.seo_score>>
    ELSE <<c.performance.load_time, c.performance.performance_score, c.seo.seo_score,
           c.technical.technical_score, c.technical.mobile, c.technical.security>>

Differing(c, which) ==
    {i \in DOMAIN TalliedValues(c, which) :
        TalliedValues(c, which)[i].your_site # TalliedValues(c, which)[i].competitor}

\* C10: in the advantage tally a metric on which both sides have identical values
\* increments neither side's win count: the wins of both sides together are no more
\* than the metrics on which the values differ.
C10_TieIncrementsNoSide ==
    Compared =>
        winner.wins.your_site + winner.wins.competitor
            <= Cardinality(Differing(comparison, cmp))

\* C11: the overall verdict is the side with strictly more category wins, and is
\* 'tie' exactly when the two sides' win counts are equal.
C11_VerdictIsMajority ==
    Compared =>
        /\ winner.overall = "your_site" <=> winner.wins.your_site > winner.wins.competitor
        /\ winner.overall = "competitor" <=> winner.wins.competitor > winner.wins.your_site
        /\ winner.overall = "tie" <=> winner.wins.your_site = winner.wins.competitor

\* two wins each: the verdict is a tie
C11_Witness ==
    /\ cmp = "advanced"
    /\ winner.wins.your_site = 2 /\ winner.wins.competitor = 2
    /\ winner.overall = "tie"

\* the fetch of the url raised
FetchFailed(site) == site.fetch # "ok"

ScoreKeys == {"seo_score", "performance_score", "technical_score", "overall_score"}

IsErrorRecord(r) ==
    /\ "error" \in DOMAIN r
    /\ r["error"] \in {"Timeout - Page took too long to load", "SSL Certificate Error",
                       "Connection Error - Site may be down", "Analysis error"}
    /\ \A k \in ScoreKeys : k \in DOMAIN r /\ r[k] = 0

\* C12: when the page cannot be fetched (timeout, TLS error, connection error or any
\* other exception), _analyze_url_comprehensive returns an error record with one
\* error message and seo, performance, technical and overall score all 0.
C12_ErrorRecordScoresZero ==
    cmp = "advanced" =>
        /\ FetchFailed(site1) => IsErrorRecord(result1)
        /\ FetchFailed(site2) => IsErrorRecord(result2)
        /\ ~FetchFailed(site1) => "error" \notin DOMAIN result1
        /\ ~FetchFailed(site2) => "error" \notin DOMAIN result2

\* a TLS error on one side and a page with non-zero scores on the other
C12_Witness ==
    /\ cmp = "advanced"
    /\ site1.fetch = "ssl"
    /\ result1["error"] = "SSL Certificate Error"
    /\ result1["overall_score"] = 0
    /\ ~FetchFailed(site2)
    /\ result2["overall_score"] > 0

\* the reported pairs of values with the result key each one is read from
ReportedMetrics(c, which) ==
    IF which = "basic"
    THEN <<[m |-> c.load_speed, key |-> "load_time"],
           [m |-> c.seo_score, key |-> "seo_score"],
           [m |-> c.on_page_seo.word_count, key |-> "word_count"]>>
    ELSE <<[m |-> c.performance.page_size, key |-> "page_size"],
           [m |-> c.seo.word_count, key |-> "word_count"],
           [m |-> c.technical.mobile, key |-> "mobile_score"],
           [m |-> c.technical.security, key |-> "security_score"]>>

\* C13: when one side has no data for a metric, the comparison reports the other
\* side's value and marks the missing side with an absent marker, never with 0.
C13_AbsentSideIsMarked ==
    Compared =>
        \A i \in DOMAIN ReportedMetrics(comparison, cmp) :
            LET e == ReportedMetrics(comparison, cmp)[i]
            IN  /\ e.key \in DOMAIN result1 => e.m.your_site = result1[e.key]
                /\ e.key \in DOMAIN result2 => e.m.competitor = result2[e.key]
                /\ e.key \notin DOMAIN result1 => e.m.your_site # 0
                /\ e.key \notin DOMAIN result2 => e.m.competitor # 0

KeywordsCompared == kw_pc \in {"basic", "advanced", "basic_again", "advanced_again"}

AdvancedKeywords == kw_pc \in {"advanced", "advanced_again"}

\* the terms a reported list holds
KeywordSet(list) == {list[i].keyword : i \in DOMAIN list}

Terms1 == WordSet(keyword_comparison.keywords1)

Terms2 == WordSet(keyword_comparison.keywords2)

Common == KeywordSet(keyword_comparison.common_keywords)

UniqueYours == KeywordSet(keyword_comparison.unique_to_your_site)

UniqueCompetitor == KeywordSet(keyword_comparison.unique_to_competitor)

PairwiseDisjoint ==
    /\ Common \cap UniqueYours = {}
    /\ Common \cap UniqueCompetitor = {}
    /\ UniqueYours \cap UniqueCompetitor = {}

\* the statement of C14 as the claim has it: common_keywords, unique_to_your_site
\* and unique_to_competitor are pairwise disjoint and together contain exactly the
\* union of the terms of both input lists.
C14_PartitionCoversUnion ==
    KeywordsCompared =>
        /\ PairwiseDisjoint
        /\ Common \cup UniqueYours \cup UniqueCompetitor = Terms1 \cup Terms2

\* the number of entries a list keeps
Kept == IF AdvancedKeywords THEN TopKeywordsAdvanced ELSE TopKeywords

\* a reported list holds terms of the set only, each once, and all of them up to the
\* number of entries a list keeps
HoldsTopOf(list, set) ==
    /\ KeywordSet(list) \subseteq set
    /\ Len(list) = Cardinality(KeywordSet(list))
    /\ Len(list) = Min(Kept, Cardinality(set))

\* C14: the three reported sets are pairwise disjoint; common_keywords holds terms
\* of both lists, unique_to_your_site terms of the first list only and
\* unique_to_competitor terms of the second list only; each holds all such terms
\* when they are no more than the list keeps (30, or 20 in CompetitorAnalyzer) and
\* that many of them otherwise.
C14_PartitionUpToTheCut ==
    KeywordsCompared =>
        /\ PairwiseDisjoint
        /\ HoldsTopOf(keyword_comparison.common_keywords, Terms1 \cap Terms2)
        /\ HoldsTopOf(keyword_comparison.unique_to_your_site, Terms1 \ Terms2)
        /\ HoldsTopOf(keyword_comparison.unique_to_competitor, Terms2 \ Terms1)

\* all three lists hold terms and one of them is cut
C14_Witness ==
    /\ kw_pc = "advanced"
    /\ Common # {} /\ UniqueCompetitor # {}
    /\ Cardinality(Terms1 \ Terms2) > TopKeywordsAdvanced
    /\ Cardinality(UniqueYours) = TopKeywordsAdvanced

Descending(list, key) ==
    \A i \in DOMAIN list : \A j \in DOMAIN list : i < j => list[i][key] >= list[j][key]

\* the importance the report gives a term of the first list, of the second list,
\* and of both together
ImportanceYours(w) == Round4(Entry(keyword_comparison.keywords1, w)[3])

ImportanceCompetitor(w) == Round4(Entry(keyword_comparison.keywords2, w)[3])

ImportanceTotal(w) ==
    Round4(Entry(keyword_comparison.keywords1, w)[3]
               + Entry(keyword_comparison.keywords2, w)[3])

\* C15: the common list is ordered by combined importance descending and each unique
\* list by that side's importance descending (the importance as reported, rounded to
\* four decimals); each list holds at most 30 entries and no term left out of a list
\* has a higher importance than a term kept in it.
C15_TopByImportance ==
    AdvancedKeywords =>
        LET c == keyword_comparison.common_keywords
            u1 == keyword_comparison.unique_to_your_site
            u2 == keyword_comparison.unique_to_competitor
        IN  /\ Descending(c, "total_importance")
            /\ Descending(u1, "importance")
            /\ Descending(u2, "importance")
            /\ Len(c) = Min(TopKeywordsAdvanced, Cardinality(Terms1 \cap Terms2))
            /\ Len(u1) = Min(TopKeywordsAdvanced, Cardinality(Terms1 \ Terms2))
            /\ Len(u2) = Min(TopKeywordsAdvanced, Cardinality(Terms2 \ Terms1))
            /\ \A i \in DOMAIN c :
                  /\ c[i].total_importance = ImportanceTotal(c[i].keyword)
                  /\ \A w \in (Terms1 \cap Terms2) \ Common :
                        ImportanceTotal(w) <= c[i].total_importance
            /\ \A i \in DOMAIN u1 :
                  /\ u1[i].importance = ImportanceYours(u1[i].keyword)
                  /\ \A w \in (Terms1 \ Terms2) \ UniqueYours :
                        ImportanceYours(w) <= u1[i].importance
            /\ \A i \in DOMAIN u2 :
                  /\ u2[i].importance = ImportanceCompetitor(u2[i].keyword)
                  /\ \A w \in (Terms2 \ Terms1) \ UniqueCompetitor :
                        ImportanceCompetitor(w) <= u2[i].importance

\* more than 30 common terms of differing importance: the list is cut
C15_Witness ==
    /\ kw_pc = "advanced"
    /\ Cardinality(Terms1 \cap Terms2) > TopKeywordsAdvanced
    /\ Len(keyword_comparison.common_keywords) = TopKeywordsAdvanced
    /\ keyword_comparison.common_keywords[1].total_importance
           > keyword_comparison.common_keywords[TopKeywordsAdvanced].total_importance
    /\ keyword_comparison.unique_to_your_site = <<>>

\* C16: two runs on the same two texts return the same keyword lists and the same
\* common and unique lists, with the same terms and scores in the same order.
C16_SameInputSameOutput ==
    kw_pc \in {"basic_again", "advanced_again"} =>
        keyword_comparison = previous_comparison

\* the SEO score the deduction table of C18 gives a page
TableSeoScore(pd) ==
    LET title == Get(pd, "title", <<>>)
        meta_desc == Get(pd, "meta_description", <<>>)
        h1_tags == Get(pd, "h1_tags", <<>>)
        images == Get(pd, "images", <<>>)
        without == Cardinality(ImagesWithoutAlt(images))
        indexability == Get(pd, "indexability_analysis", EmptyDict)
        sum == (IF title = <<>> THEN 15 ELSE 0)
             + (IF title # <<>> /\ (Len(title) < 30 \/ Len(title) > 60) THEN 5 ELSE 0)
             + (IF meta_desc = <<>> THEN 10 ELSE 0)
             + (IF meta_desc # <<>> /\ (Len(meta_desc) < 120 \/ Len(meta_desc) > 160)
                THEN 5 ELSE 0)
             + (IF Len(h1_tags) = 0 \/ Len(h1_tags) > 1 THEN 10 ELSE 0)
             + (IF without * 100 > 50 * Len(images) THEN 10 ELSE 0)
             + (IF Get(pd, "canonical_url", <<>>) = <<>> THEN 5 ELSE 0)
             + (IF Get(indexability, "indexability_status", "indexable") # "indexable"
                THEN 20 ELSE 0)
    IN  Max(0, 100 - sum)

\* C18: the SEO category score is max(0, 100 - sum of the applicable deductions) of
\* the table: missing title 15, title length outside [30,60] 5, missing meta
\* description 10, description length outside [120,160] 5, missing H1 or more than
\* one H1 10, more than 50% of images missing alt 10, missing canonical 5, page not
\* indexable 20, and no other deduction.
C18_SeoDeductionTable ==
    pc = "scored" => page_score.category_scores.seo = TableSeoScore(page_data)

TitleReasons == {"Missing title tag", "Title too short", "Title too long"}

\* the page with a title of 45 characters in place of its own
WithGoodTitle(pd) == ("title" :> Str(45)) @@ pd

\* C19: the missing-title deduction and the title-length deduction never apply
\* together: an empty title gets only the 15-point deduction, a title of 30 to 60
\* characters gets neither, and a non-empty title shorter than 30 or longer than 60
\* characters gets only the 5-point length deduction.
C19_TitleDeductionsExclusive ==
    pc = "scored" =>
        LET title == Get(page_data, "title", <<>>)
            given == Reasons(SeoEval(page_data)) \cap TitleReasons
            points == _score_seo(WithGoodTitle(page_data)) - page_score.category_scores.seo
        IN  /\ title = <<>> => given = {"Missing title tag"} /\ points = 15
            /\ (Len(title) >= 30 /\ Len(title) <= 60) => given = {} /\ points = 0
            /\ (title # <<>> /\ Len(title) < 30) => given = {"Title too short"} /\ points = 5
            /\ Len(title) > 60 => given = {"Title too long"} /\ points = 5

\* title = "" on a page that has every other signal in order
C19_Witness ==
    /\ pc = "scored"
    /\ "title" \in DOMAIN page_data /\ page_data["title"] = <<>>
    /\ Reasons(SeoEval(page_data)) = {"Missing title tag"}
    /\ page_score.category_scores.seo = 85

CategorySet == {Categories[i] : i \in DOMAIN Categories}

\* the sum of the category's score over the pages, each page scored on its own
RECURSIVE PageTotal(_, _)
PageTotal(pages_, category) ==
    IF pages_ = <<>> THEN 0
    ELSE calculate_page_score(Head(pages_)).category_scores[category]
             + PageTotal(Tail(pages_), category)

EmptySiteScore ==
    /\ site_score.overall_score = 0
    /\ site_score.category_scores = EmptyDict
    /\ site_score.total_pages = 0

\* the statement of C20 as the claim has it: each category score is the arithmetic
\* mean of the category's score over all pages (here in tenths) and total_pages is
\* the number of pages; an empty list gives overall_score 0 and no categories.
C20_SiteScoreIsMean ==
    site_pc = "done" =>
        IF pages = <<>> THEN EmptySiteScore
        ELSE /\ site_score.total_pages = Len(pages)
             /\ DOMAIN site_score.category_scores = CategorySet
             /\ \A c \in CategorySet :
                   site_score.category_scores[c] * Len(pages) = PageTotal(pages, c) * 10

\* C20: each category score is the arithmetic mean of the category's score over all
\* pages rounded to one decimal (a multiple of 0.1 no further than 0.05 from the
\* mean) and total_pages is the number of pages; an empty list gives overall_score 0
\* and no categories.
C20_SiteScoreIsRoundedMean ==
    site_pc = "done" =>
        IF pages = <<>> THEN EmptySiteScore
        ELSE /\ site_score.total_pages = Len(pages)
             /\ DOMAIN site_score.category_scores = CategorySet
             /\ \A c \in CategorySet :
                   2 * Abs(site_score.category_scores[c] * Len(pages)
                               - PageTotal(pages, c) * 10) <= Len(pages)

\* three pages whose mean SEO score is not a multiple of 0.1 and rounds up
C20_Witness ==
    /\ site_pc = "done"
    /\ Len(pages) = 3
    /\ site_score.total_pages = 3
    /\ (PageTotal(pages, "seo") * 10) % 3 = 2
    /\ site_score.category_scores.seo = (PageTotal(pages, "seo") * 10) \div 3 + 1

\* C21: the site-wide issue list of calculate_site_score is ordered by
\* severity (critical, warning, info, opportunity), holds at most 100 issues,
\* and every issue in it carries the url of a page of the site
C21_SiteIssuesBySeverity ==
    (site_pc = "done" /\ pages # <<>>) =>
        LET kept == site_score.site_wide_issues
        IN  /\ Len(kept) <= SiteIssuesLimit
            /\ \A i, j \in DOMAIN kept :
                   i < j => severity_order[kept[i].severity] <= severity_order[kept[j].severity]
            /\ \A i \in DOMAIN kept :
                   \E k \in DOMAIN pages : kept[i].page_url = Get(pages[k], "url", <<>>)

\* C22: robots.txt is fetched at most once per domain, or for callers that
\* overlap on an uncached domain at most once per caller, also when the fetch
\* fails or returns a status other than 200
C22_OneFetchPerDomain ==
    \A d \in Domains : fetches[d] <= Cardinality(Callers)

\* a finished call of thread t that found a robots.txt
Judged(t) == caller[t].pc = "done" /\ caller[t].result.available

\* the lines of the robots.txt that thread t's finished call read
LinesRead(t) == robots_served[caller[t].domain].text

IsRule(line) == Lower(line.field) \in {"allow", "disallow"}

IsUserAgent(line) == Lower(line.field) = "user-agent"

\* line i is a rule of a '*' or 'googlebot' group: the User-agent line nearest
\* above it names one of the two
InNamedGroup(lines, i) ==
    \E u \in 1..(i - 1) :
        /\ IsUserAgent(lines[u])
        /\ LowerAll(lines[u].value) \in {<<"*">>, <<"googlebot">>}
        /\ \A v \in (u + 1)..(i - 1) : ~IsUserAgent(lines[v])

\* the rules of the two groups that match the path
MatchingRules(lines, path) ==
    {i \in DOMAIN lines :
        /\ IsRule(lines[i])
        /\ InNamedGroup(lines, i)
        /\ _robots_pattern_matches(path, lines[i].value)}

\* C30: the verdict of _check_robots_txt is that of the last rule, in file
\* order, of the '*' and 'googlebot' groups that matches the path (allowed
\* when none matches), blocks_page is the negation of allows_page, and the
\* rules of other groups have no part in it
C30_LastMatchingRuleDecides ==
    \A t \in Callers :
        Judged(t) =>
            LET matching == MatchingRules(LinesRead(t), caller[t].path)
                result == caller[t].result
            IN  /\ result.blocks_page = ~result.allows_page
                /\ result.allows_page =
                       (matching = {} \/ Lower(LinesRead(t)[MaxOf(matching)].field) = "allow")

\* a verdict on a path that a Disallow and an Allow of the two groups match,
\* in a file that also holds a matching rule of another group
C30_Witness ==
    \E t \in Callers :
        /\ Judged(t)
        /\ LET lines == LinesRead(t)
               matching == MatchingRules(lines, caller[t].path)
           IN  /\ \E i, j \in matching :
                      Lower(lines[i].field) = "allow" /\ Lower(lines[j].field) = "disallow"
               /\ \E k \in DOMAIN lines :
                      /\ IsRule(lines[k]) /\ k \notin matching /\ lines[k].value # <<>>
                      /\ _robots_pattern_matches(caller[t].path, lines[k].value)

\* analysis holds the signals an extractor returns on the document as fetched
ReturnedAsFetched(signals) ==
    \A key \in DOMAIN signals : key \in DOMAIN analysis /\ analysis[key] = signals[key]

\* C23: in _analyze_url_comprehensive the signals an extractor returns are
\* those it returns on the document as fetched, whichever extractors ran
\* before it
C23_ExtractorsIndependent ==
    extract_pc = "analyzed" =>
        /\ ReturnedAsFetched(_extract_seo_data(response_text))
        /\ ReturnedAsFetched(_analyze_performance_indicators(response_text))
        /\ ReturnedAsFetched(_analyze_mobile_friendliness(response_text))
        /\ ReturnedAsFetched([key \in {"robots_meta", "images_count", "has_sitemap_link"} |->
                        _analyze_technical_seo(response_text)[key]])

\* a score in tenths of a point that lies between 0 and 100 points
InRange(score) == 0 <= score /\ score <= 1000

\* C24: the accessibility wcag_score and each of its component scores (image,
\* link, form, ARIA, semantic) lie in [0, 100] for every document, also one
\* whose links all have generic or empty text
C24_AccessibilityScoresInRange ==
    a11y_pc = "done" =>
        /\ InRange(a11y_result.wcag_score)
        /\ InRange(a11y_result.image_analysis.score)
        /\ InRange(a11y_result.link_analysis.score)
        /\ InRange(a11y_result.form_analysis.score)
        /\ InRange(a11y_result.aria_analysis.score)
        /\ InRange(a11y_result.semantic_analysis.score)

\* some other page of the site links to the url
LinkedFromAnotherPage(url) ==
    \E i \in DOMAIN all_pages :
        /\ all_pages[i].url # url
        /\ \E k \in DOMAIN InternalLinks(all_pages[i]) : InternalLinks(all_pages[i])[k].url = url

\* the urls _analyze_site_links reported as orphans
ReportedOrphans == {site_analysis.orphan_pages[i] : i \in DOMAIN site_analysis.orphan_pages}

\* C25: a page is reported as an orphan exactly when no other page of the
\* site links to it; a page's links to itself do not count, and the page
\* being analyzed is judged like every other page
C25_OrphanIffNoInboundLink ==
    link_pc = "done" =>
        \A i \in DOMAIN all_pages :
            all_pages[i].url \in ReportedOrphans <=> ~LinkedFromAnotherPage(all_pages[i].url)

\* page u has an internal link to url v
LinksTo(u, v) ==
    \E i \in DOMAIN all_pages :
        /\ all_pages[i].url = u
        /\ \E k \in DOMAIN InternalLinks(all_pages[i]) : InternalLinks(all_pages[i])[k].url = v

Crawled == {all_pages[i].url : i \in DOMAIN all_pages}

HomeUrl == "https://s.example/"

\* the crawled pages reached from the homepage in at most n clicks, through
\* crawled pages only
RECURSIVE Within(_)
Within(n) ==
    IF n = 0 THEN {HomeUrl}
    ELSE UNION {{v \in Crawled : v \in before \/ \E u \in before : LinksTo(u, v)} :
                   before \in {Within(n - 1)}}

\* C26: _calculate_link_depths gives every crawled page that can be reached
\* from the homepage through links between crawled pages its least number of
\* clicks, gives the homepage 0, and gives no depth to a page that cannot be
\* reached or to a url that was not crawled
C26_DepthIsFewestClicks ==
    (link_pc = "done" /\ HomeUrl \in Crawled) =>
        LET link_depths == site_analysis.link_depths
        IN  /\ DOMAIN link_depths \subseteq Crawled
            /\ link_depths[HomeUrl] = 0
            /\ \A url \in Crawled :
                   /\ url \in DOMAIN link_depths <=> url \in Within(Len(all_pages))
                   /\ url \in DOMAIN link_depths =>
                          /\ url \in Within(link_depths[url])
                          /\ link_depths[url] = 0 \/ url \notin Within(link_depths[url] - 1)

\* depths of a site on which a page is one click from the homepage and also
\* two clicks through another page, and a reached page links to a url that
\* was not crawled
C26_Witness ==
    /\ link_pc = "done" /\ HomeUrl \in Crawled
    /\ \E url, mid \in Crawled \ {HomeUrl} :
           /\ url # mid
           /\ LinksTo(HomeUrl, url) /\ LinksTo(HomeUrl, mid) /\ LinksTo(mid, url)
           /\ site_analysis.link_depths[url] = 1
    /\ \E url \in DOMAIN site_analysis.link_depths : LinksTo(url, Uncrawled)
    /\ Uncrawled \notin DOMAIN site_analysis.link_depths

\* the crawl thread has executed active_crawls[job_id]['progress'] = 100
PastCompletion ==
    \/ crawl_pc > CHOOSE i \in DOMAIN run_crawl_async : run_crawl_async[i] = Assign("progress", 100)
    \/ crawl_pc = Returned_ /\ JobId \in DOMAIN active_crawls

JobCompleted == JobId \in DOMAIN active_crawls /\ active_crawls[JobId].status = "completed"

\* C27: under every interleaving of the crawl thread with the monitor thread, a
\* job whose status is 'completed' has progress 100 and the completion message,
\* from the crawl thread's assignment of progress 100 on: the monitor overwrites
\* neither progress nor message after the crawling phase.
C27_CompletedHasFullProgress ==
    (JobCompleted /\ PastCompletion)
        => /\ active_crawls[JobId].progress = 100
           /\ active_crawls[JobId].message = "Crawl completed successfully!"

StatusOrder == <<"starting", "initializing", "crawling", "processing", "generating", "completed">>

Rank(status) == CHOOSE i \in DOMAIN StatusOrder : StatusOrder[i] = status

Terminal == {"completed", "error"}

\* a change of the job's status is a move forward or a jump to 'error' from a
\* status that is not terminal
StatusStep ==
    (JobId \in DOMAIN active_crawls /\ active_crawls'[JobId].status # active_crawls[JobId].status)
        => /\ active_crawls[JobId].status \notin Terminal
           /\ \/ active_crawls'[JobId].status = "error"
              \/ Rank(active_crawls'[JobId].status) > Rank(active_crawls[JobId].status)

StatusMovesForward == [][StatusStep]_vars

CompletedHasOutputFiles == JobCompleted => "output_files" \in DOMAIN active_crawls[JobId]

\* C28: the status of a job only moves forward through starting, initializing,
\* crawling, processing, generating, completed or jumps to error from a status
\* that is not terminal, a terminal status never changes, and a job whose
\* status is 'completed' has its output_files recorded.
C28_StatusForwardAndFilesRecorded == StatusMovesForward /\ []CompletedHasOutputFiles

\* the winner fields of the per-metric comparisons of _deep_compare_results
MetricWinners ==
    {comparison.performance.load_time.winner, comparison.performance.page_size.winner,
     comparison.performance.performance_score.winner, comparison.seo.seo_score.winner,
     comparison.technical.technical_score.winner}

\* C29: in the advanced analyze_competitors, a side whose result is the error
\* record is named winner of no per-metric comparison (load time, page size,
\* performance, SEO, technical score) and has no win in the advantage tally.
C29_FailedSideNeverWins ==
    cmp = "advanced"
        => /\ IsErrorRecord(result1)
                => "your_site" \notin MetricWinners /\ advantage_score.your_wins = 0
           /\ IsErrorRecord(result2)
                => "competitor" \notin MetricWinners /\ advantage_score.competitor_wins = 0

====
